---- MODULE Spec2Model ----
(***************************************************************************)
(* Model of the BC-RAO community behavioural analysis engine:              *)
(*   app/analysis/scorers.py        post scoring and the ISC calculator    *)
(*   app/services/analysis_service.py   AnalysisService.run_analysis       *)
(*                                                                         *)
(* Numbers.  Python floats are modelled as exact rationals <<n, d>> in     *)
(* lowest terms with d > 0; None is the empty tuple.  round(x, k) is       *)
(* round-half-to-even on the exact value, which is what Python's round     *)
(* does on the value it is given.                                          *)
(*                                                                         *)
(* Text.  A post text is a sequence of lexical tokens.  A compiled regex   *)
(* is modelled by the set of tokens of the vocabulary it matches, and by   *)
(* its IGNORECASE flag.                                                    *)
(***************************************************************************)
EXTENDS Integers, Sequences, FiniteSets, TLC

VARIABLES
    post_data,          \* calculate_post_score: argument post_data
    community_avg,      \* calculate_post_score: argument community_avg
    score_breakdown,    \* calculate_post_score: returned dict (None before the call)
    posts_data,         \* calculate_isc_score: argument posts_data
    isc_result,         \* calculate_isc_score: outcome (None before the call)
    raw_posts,          \* table raw_posts of the campaign, in insertion order
    community_profiles, \* table community_profiles of the campaign, by subreddit
    upserts,            \* rows the run has upserted into community_profiles
    pc,                 \* run_analysis: "idle", "loop" (over subreddits) or "done"
    run_args,           \* run_analysis: force_refresh, and whether user_id and plan are given
    todo,               \* run_analysis: subreddits of posts_by_subreddit not yet processed
    errors,             \* run_analysis: errors
    posts_analyzed,     \* run_analysis: posts_analyzed
    profiles_created,   \* run_analysis: profiles_created
    result,             \* run_analysis: the AnalysisResult returned or the AppError raised
    post_text,          \* the text given to a per-post detector
    jargon_penalty,     \* calculate_marketing_jargon_penalty: returned tuple (None before)
    penalties,          \* check_post_penalties: returned list (None before the call)
    texts,              \* extract_forbidden_patterns: argument texts
    forbidden_result,   \* extract_forbidden_patterns: returned dict (None before the call)
    doc,                \* nlp_pipeline: the Doc, its tokens and its extension attributes
    vader_calls,        \* nlp_pipeline: calls of vader.polarity_scores so far
    top_success_hooks,  \* _build_community_profile: top_success_hooks (None before)
    draft_text,         \* validate_draft: argument draft_text
    forbidden_patterns, \* validate_draft: argument forbidden_patterns
    blacklist_check,    \* validate_draft: outcome (None before the call)
    request,            \* validate_generation_request: archetype, account_status, isc_score
    gating,             \* validate_generation_request: returned dict (None before the call)
    cost_caps,          \* inference.router.COST_CAPS: cap per plan
    usage_tracking,     \* table usage_tracking: cost_usd of the user's rows of the cycle
    budget_plan,        \* check_budget: argument plan
    budget,             \* check_budget: outcome (None before the call)
    target_subreddits,  \* the campaign's target_subreddits
    scrape_calls,       \* calls of scrape_subreddit so far: subreddit and outcome
    stored_posts,       \* subreddits whose posts _store_posts has stored, in order
    collect_pc,         \* run_collection: "idle", "loop" (over subreddits) or "done"
    collect_todo,       \* run_collection: subreddits not yet processed
    collect_errors,     \* run_collection: errors
    collect_counts,     \* run_collection: scraped_total, filtered_total, classified_total
    collect_result,     \* run_collection: CollectionResult returned or AppError raised
    batch_results,      \* _build_community_profile: argument nlp_results (tone labels)
    dominant_tone,      \* _build_community_profile: dominant_tone (None before)
    shadow_table,       \* the shadow_table row of the monitored post
    clock,              \* datetime.utcnow(), in minutes
    detections,         \* detected_status of every monitoring check so far, in order
    alerts,             \* confirmed-shadowban handling (alert, pattern extraction) runs
    check_task,         \* run_monitoring_check: position and locals of the running check
    audit_task,         \* run_post_audit task: final task state (None before)
    redis,              \* task state stored under task:<id>, by task id
    tasks,              \* the asyncio tasks created so far, by task id
    streams             \* progress_stream per task id: events emitted so far

scorerVars == <<post_data, community_avg, score_breakdown, posts_data, isc_result>>

runVars == <<raw_posts, community_profiles, upserts, pc, run_args, todo, errors,
             posts_analyzed, profiles_created, result>>

analysisVars == <<post_text, jargon_penalty, penalties, texts, forbidden_result, doc,
                  vader_calls, top_success_hooks>>

generationVars == <<draft_text, forbidden_patterns, blacklist_check, request, gating>>

budgetVars == <<cost_caps, usage_tracking, budget_plan, budget>>

collectionVars == <<target_subreddits, scrape_calls, stored_posts, collect_pc,
                    collect_todo, collect_errors, collect_counts, collect_result>>

toneVars == <<batch_results, dominant_tone>>

monitorVars == <<shadow_table, clock, detections, alerts, check_task, audit_task>>

taskVars == <<redis, tasks, streams>>

serviceVars == <<budgetVars, collectionVars, toneVars, monitorVars, taskVars>>

vars == <<scorerVars, runVars, analysisVars, generationVars, serviceVars>>

None == <<>>

----------------------------------------------------------------------------
\* Exact rational arithmetic

RECURSIVE GCD(_, _)
GCD(a, b) == IF b = 0 THEN a ELSE GCD(b, a % b)

AbsInt(n) == IF n < 0 THEN -n ELSE n

Rat(n, d) ==
    LET s == IF d < 0 THEN -1 ELSE 1
        g == GCD(AbsInt(n), AbsInt(d))
    IN  <<(s * n) \div g, (s * d) \div g>>

Num(x) == x[1]
Den(x) == x[2]

RInt(n) == <<n, 1>>
RAdd(x, y) == Rat(Num(x) * Den(y) + Num(y) * Den(x), Den(x) * Den(y))
RSub(x, y) == Rat(Num(x) * Den(y) - Num(y) * Den(x), Den(x) * Den(y))
RMul(x, y) == Rat(Num(x) * Num(y), Den(x) * Den(y))
RDiv(x, y) == Rat(Num(x) * Den(y), Den(x) * Num(y))
RLe(x, y) == Num(x) * Den(y) <= Num(y) * Den(x)
RLt(x, y) == Num(x) * Den(y) < Num(y) * Den(x)
RAbs(x) == <<AbsInt(Num(x)), Den(x)>>
RMax(x, y) == IF RLe(x, y) THEN y ELSE x
RMin(x, y) == IF RLe(x, y) THEN x ELSE y

\* nearest integer to n/d (d > 0), ties to the even neighbour
RoundHalfEven(n, d) ==
    LET q == n \div d
        r == n % d
    IN  IF 2 * r < d THEN q
        ELSE IF 2 * r > d THEN q + 1
        ELSE IF q % 2 = 0 THEN q ELSE q + 1

\* Python round(x, ndigits) with 10^ndigits = pow10
Round(x, pow10) == Rat(RoundHalfEven(Num(x) * pow10, Den(x)), pow10)

RECURSIVE RSum(_)
RSum(s) == IF s = <<>> THEN RInt(0) ELSE RAdd(Head(s), RSum(Tail(s)))

----------------------------------------------------------------------------
\* Text: tokens, str.lower, and the compiled patterns of scorers.py

UpperTokens == [I |-> "i", My |-> "my", Leverage |-> "leverage", ROI |-> "roi",
                Synergy |-> "synergy"]
               @@ ("My tool" :> "my tool") @@ ("I built" :> "i built")
               @@ ("Free Trial" :> "free trial") @@ ("Thoughts?" :> "thoughts?")
               @@ ("Ok" :> "ok") @@ ("Shocking" :> "shocking") @@ ("Reddit" :> "reddit")
               @@ ("BUY NOW BUY NOW BUY NOW" :> "buy now buy now buy now")
               @@ ("Click here" :> "click here") @@ ("Buy Now" :> "buy now")

lower(tok) == IF tok \in DOMAIN UpperTokens THEN UpperTokens[tok] ELSE tok

Pattern(words, ignorecase) == [words |-> words, ignorecase |-> ignorecase]

PatternMatches(pattern, tok) ==
    IF pattern.ignorecase THEN lower(tok) \in pattern.words ELSE tok \in pattern.words

VULNERABILITY_PATTERNS == <<
    Pattern({"i", "my", "me", "we", "our", "us"}, TRUE),
    Pattern({"?"}, FALSE),
    Pattern({"struggled", "frustrated", "confused", "worried", "concerned"}, TRUE),
    Pattern({"story", "journey", "experience", "learned", "realized"}, TRUE) >>

JARGON_PATTERNS == <<
    Pattern({"synergy", "synergies", "synergize"}, TRUE),
    Pattern({"leverage"}, TRUE),
    Pattern({"paradigm"}, TRUE),
    Pattern({"disrupt", "disruptive", "disruption"}, TRUE),
    Pattern({"innovate", "innovates"}, TRUE),
    Pattern({"game-changer"}, TRUE),
    Pattern({"thought leader"}, TRUE),
    Pattern({"best-in-class"}, TRUE),
    Pattern({"reach out"}, TRUE),
    Pattern({"circle back"}, TRUE),
    Pattern({"touch base"}, TRUE),
    Pattern({"revolutionary"}, TRUE),
    Pattern({"cutting-edge"}, TRUE),
    Pattern({"scalable"}, TRUE),
    Pattern({"ROI"}, FALSE),
    Pattern({"growth hack", "growth hacks", "growth hacking"}, TRUE) >>

URL_PATTERN == Pattern({"https://a.io/x", "http://b.org", "www.c.com"}, TRUE)

\* pattern.findall(text) / pattern.finditer(text): the matches, left to right
RECURSIVE findall(_, _)
findall(pattern, text) ==
    IF text = <<>> THEN <<>>
    ELSE (IF PatternMatches(pattern, Head(text)) THEN <<Head(text)>> ELSE <<>>)
         \o findall(pattern, Tail(text))

RECURSIVE CountMatches(_, _)
CountMatches(patterns, text) ==
    IF patterns = <<>> THEN 0
    ELSE Len(findall(Head(patterns), text)) + CountMatches(Tail(patterns), text)

----------------------------------------------------------------------------
\* scorers.py

calculate_vulnerability_weight(text) ==
    IF text = <<>> THEN RInt(0)
    ELSE LET matches == CountMatches(VULNERABILITY_PATTERNS, text)
             score == IF matches = 0 THEN RInt(0)
                      ELSE IF matches <= 3 THEN RInt(3)
                      ELSE IF matches <= 6 THEN RInt(5)
                      ELSE IF matches <= 10 THEN RInt(7)
                      ELSE RMin(RInt(10), RAdd(RInt(7), Rat((matches - 10) * 3, 10)))
         IN  Round(score, 100)

\* variant: the final clamp to [0, 10] is left out
rhythm_adherence_unclamped(post_avg_length, post_length_std, community_avg_length, community_length_std) ==
    IF post_avg_length = None \/ community_avg_length = None THEN RInt(5)
    ELSE LET avg_diff == RAbs(RSub(post_avg_length, community_avg_length))
             score == RMax(RInt(0), RSub(RInt(10), avg_diff))
             std_penalty ==
                 IF post_length_std # None /\ community_length_std # None
                 THEN RMin(RInt(2),
                           RMul(RAbs(RSub(post_length_std, community_length_std)), Rat(1, 2)))
                 ELSE RInt(0)
         IN  Round(RSub(score, std_penalty), 100)

\* variant: a missing community std-dev is read as 0 instead of skipping the penalty
rhythm_adherence_std_default(post_avg_length, post_length_std, community_avg_length, community_length_std) ==
    IF post_avg_length = None \/ community_avg_length = None THEN RInt(5)
    ELSE LET avg_diff == RAbs(RSub(post_avg_length, community_avg_length))
             score == RMax(RInt(0), RSub(RInt(10), avg_diff))
             other_std == IF community_length_std = None THEN RInt(0)
                          ELSE community_length_std
             std_penalty ==
                 IF post_length_std # None
                 THEN RMin(RInt(2), RMul(RAbs(RSub(post_length_std, other_std)), Rat(1, 2)))
                 ELSE RInt(0)
         IN  RMax(RInt(0), RMin(RInt(10), Round(RSub(score, std_penalty), 100)))

calculate_rhythm_adherence(post_avg_length, post_length_std, community_avg_length, community_length_std) ==
    IF post_avg_length = None \/ community_avg_length = None THEN RInt(5)
    ELSE LET avg_diff == RAbs(RSub(post_avg_length, community_avg_length))
             score == RMax(RInt(0), RSub(RInt(10), avg_diff))
             std_penalty ==
                 IF post_length_std # None /\ community_length_std # None
                 THEN RMin(RInt(2),
                           RMul(RAbs(RSub(post_length_std, community_length_std)), Rat(1, 2)))
                 ELSE RInt(0)
         IN  RMax(RInt(0), RMin(RInt(10), Round(RSub(score, std_penalty), 100)))

\* variant: only a missing post value is neutral; a missing community value scores 0
formality_match_zero_default(post_formality, community_formality) ==
    IF post_formality = None THEN RInt(5)
    ELSE IF community_formality = None THEN RInt(0)
    ELSE LET diff == RAbs(RSub(post_formality, community_formality))
             score == RMax(RInt(0), RSub(RInt(10), RMul(diff, RInt(2))))
         IN  Round(score, 100)

calculate_formality_match(post_formality, community_formality) ==
    IF post_formality = None \/ community_formality = None THEN RInt(5)
    ELSE LET diff == RAbs(RSub(post_formality, community_formality))
             score == RMax(RInt(0), RSub(RInt(10), RMul(diff, RInt(2))))
         IN  Round(score, 100)

\* variant: phrases are compared as written, not by phrase.lower()
RECURSIVE DedupExact(_, _)
DedupExact(phrases, seen_phrases) ==
    IF phrases = <<>> THEN <<>>
    ELSE IF Head(phrases) \in seen_phrases
         THEN DedupExact(Tail(phrases), seen_phrases)
         ELSE <<Head(phrases)>>
              \o DedupExact(Tail(phrases), seen_phrases \cup {Head(phrases)})

\* the loop over JARGON_PATTERNS and finditer: matches keeps the first
\* occurrence of each phrase, compared by phrase.lower()
RECURSIVE DedupLower(_, _)
DedupLower(phrases, seen_phrases) ==
    IF phrases = <<>> THEN <<>>
    ELSE IF lower(Head(phrases)) \in seen_phrases
         THEN DedupLower(Tail(phrases), seen_phrases)
         ELSE <<Head(phrases)>>
              \o DedupLower(Tail(phrases), seen_phrases \cup {lower(Head(phrases))})

RECURSIVE FindAllPatterns(_, _)
FindAllPatterns(patterns, text) ==
    IF patterns = <<>> THEN <<>>
    ELSE findall(Head(patterns), text) \o FindAllPatterns(Tail(patterns), text)

PenaltyPhrases(phrases, severity, category) ==
    [i \in 1..Len(phrases) |->
        [phrase |-> phrases[i], severity |-> severity, category |-> category]]

\* returns <<penalty, penalty_phrases>>
calculate_marketing_jargon_penalty(text) ==
    IF text = <<>> THEN <<RInt(0), <<>>>>
    ELSE LET matches == DedupLower(FindAllPatterns(JARGON_PATTERNS, text), {})
             num_matches == Len(matches)
             penalty == IF num_matches = 0 THEN RInt(0)
                        ELSE IF num_matches = 1 THEN RInt(3)
                        ELSE IF num_matches = 2 THEN RInt(5)
                        ELSE IF num_matches = 3 THEN RInt(8)
                        ELSE RMin(RInt(10), RAdd(RInt(8), Rat(num_matches - 3, 2)))
             severity == IF num_matches = 0 THEN "none"
                         ELSE IF num_matches = 1 THEN "low"
                         ELSE IF num_matches = 2 THEN "medium"
                         ELSE "high"
         IN  <<Round(penalty, 100), PenaltyPhrases(matches, severity, "Promotional")>>

\* returns <<penalty, penalty_phrases>>
calculate_link_density_penalty(text) ==
    IF text = <<>> THEN <<RInt(0), <<>>>>
    ELSE LET links == findall(URL_PATTERN, text)
             num_links == Len(links)
             penalty == IF num_links = 0 THEN RInt(0)
                        ELSE IF num_links = 1 THEN RInt(3)
                        ELSE IF num_links = 2 THEN RInt(6)
                        ELSE RInt(9)
             severity == IF num_links = 0 THEN "none"
                         ELSE IF num_links = 1 THEN "low"
                         ELSE IF num_links = 2 THEN "medium"
                         ELSE "high"
         IN  <<Round(penalty, 100), PenaltyPhrases(links, severity, "Link patterns")>>

Clamp(lo, hi, x) == RMax(lo, RMin(hi, x))

\* variant: the link penalty is weighted 0.20 instead of 0.15
post_score_link_weight(post, community) ==
    LET text == post.raw_text
        vulnerability == calculate_vulnerability_weight(text)
        rhythm == calculate_rhythm_adherence(post.avg_sentence_length,
                                             post.sentence_length_std,
                                             community.avg_sentence_length,
                                             community.sentence_length_std)
        formality == calculate_formality_match(post.formality_score,
                                               community.formality_level)
        jargon == calculate_marketing_jargon_penalty(text)
        link == calculate_link_density_penalty(text)
        total == RSub(RSub(RAdd(RAdd(RMul(vulnerability, Rat(25, 100)),
                                     RMul(rhythm, Rat(25, 100))),
                                RMul(formality, Rat(2, 10))),
                           RMul(jargon[1], Rat(15, 100))),
                      RMul(link[1], Rat(2, 10)))
    IN  [vulnerability_weight |-> vulnerability,
         rhythm_adherence |-> rhythm,
         formality_match |-> formality,
         marketing_jargon_penalty |-> jargon[1],
         link_density_penalty |-> link[1],
         total_score |-> Round(Clamp(RInt(0), RInt(10), total), 100),
         penalty_phrases |-> jargon[2] \o link[2]]

calculate_post_score(post, community) ==
    LET text == post.raw_text
        vulnerability == calculate_vulnerability_weight(text)
        rhythm == calculate_rhythm_adherence(post.avg_sentence_length,
                                             post.sentence_length_std,
                                             community.avg_sentence_length,
                                             community.sentence_length_std)
        formality == calculate_formality_match(post.formality_score,
                                               community.formality_level)
        jargon == calculate_marketing_jargon_penalty(text)
        link == calculate_link_density_penalty(text)
        total == RSub(RSub(RAdd(RAdd(RMul(vulnerability, Rat(25, 100)),
                                     RMul(rhythm, Rat(25, 100))),
                                RMul(formality, Rat(2, 10))),
                           RMul(jargon[1], Rat(15, 100))),
                      RMul(link[1], Rat(15, 100)))
    IN  [vulnerability_weight |-> vulnerability,
         rhythm_adherence |-> rhythm,
         formality_match |-> formality,
         marketing_jargon_penalty |-> jargon[1],
         link_density_penalty |-> link[1],
         total_score |-> Round(Clamp(RInt(0), RInt(10), total), 100),
         penalty_phrases |-> jargon[2] \o link[2]]

\* sorted(items, key=..., reverse=True) as the list of positions of items:
\* Python's sort is stable, so equal keys keep their input order
RECURSIVE InsertDesc(_, _, _)
InsertDesc(order, i, keys) ==
    IF order = <<>> THEN <<i>>
    ELSE IF RLe(keys[i], keys[Head(order)])
         THEN <<Head(order)>> \o InsertDesc(Tail(order), i, keys)
         ELSE <<i>> \o order

RECURSIVE SortedDescUpTo(_, _)
SortedDescUpTo(keys, n) ==
    IF n = 0 THEN <<>> ELSE InsertDesc(SortedDescUpTo(keys, n - 1), n, keys)

SortedDesc(keys) == SortedDescUpTo(keys, Len(keys))

MaxInt(a, b) == IF a >= b THEN a ELSE b

\* lst[:k] and lst[-k:] for 0 < k
SliceFirst(lst, k) == SubSeq(lst, 1, IF k < Len(lst) THEN k ELSE Len(lst))
SliceLast(lst, k) == SubSeq(lst, MaxInt(1, Len(lst) - k + 1), Len(lst))

\* calculate_marketing_jargon_penalty(text)[0] or calculate_link_density_penalty(text)[0]
PenaltyOf(kind, text) ==
    IF kind = "jargon" THEN calculate_marketing_jargon_penalty(text)[1]
    ELSE calculate_link_density_penalty(text)[1]

\* sum(1 for p in quartile if penalty(p.get("raw_text", ""))[0] > 0)
CountPenalised(posts, quartile, kind) ==
    Cardinality({k \in 1..Len(quartile) :
                    RLt(RInt(0), PenaltyOf(kind, posts[quartile[k]].raw_text))})

\* variant: among equal total_scores the later post comes first
sorted_posts_unstable(posts) ==
    LET n == Len(posts)
        order == SortedDesc([i \in 1..n |-> posts[n + 1 - i].total_score])
    IN  [a \in 1..n |-> n + 1 - order[a]]

\* positions of posts_data in the order of sorted(..., key=total_score, reverse=True)
sorted_posts(posts) == SortedDesc([i \in 1..Len(posts) |-> posts[i].total_score])

\* variant: the quartile size is rounded up
top_quartile_size_ceil(posts) == MaxInt(1, (Len(posts) + 3) \div 4)

top_quartile_size(posts) == MaxInt(1, Len(posts) \div 4)

top_posts(posts) == SliceFirst(sorted_posts(posts), top_quartile_size(posts))

bottom_posts(posts) == SliceLast(sorted_posts(posts), top_quartile_size(posts))

\* variant: the guard lets a zero count through
HasBottomOrZero(count) == count >= 0

\* the guard of a ratio factor: is the bottom-quartile count a usable divisor
HasBottom(count) == count > 0

\* 10 - 5 * top / bottom clamped to [0, 10], or the default 5.0
Sensitivity(top, bottom) ==
    IF HasBottom(bottom)
    THEN Clamp(RInt(0), RInt(10), RSub(RInt(10), RMul(Rat(top, bottom), RInt(5))))
    ELSE RInt(5)

\* Factor 1, over the quartiles top and bottom (lists of positions)
jargon_sensitivity(posts, top, bottom) ==
    Sensitivity(CountPenalised(posts, top, "jargon"),
                CountPenalised(posts, bottom, "jargon"))

\* Factor 2
link_sensitivity(posts, top, bottom) ==
    Sensitivity(CountPenalised(posts, top, "link"),
                CountPenalised(posts, bottom, "link"))

MeanVulnerability(posts, quartile) ==
    RDiv(RSum([k \in 1..Len(quartile) |-> posts[quartile[k]].vulnerability_weight]),
         RInt(Len(quartile)))

\* variant: the difference is taken bottom minus top
vulnerability_preference_reversed(posts, top, bottom) ==
    LET top_vulnerability == MeanVulnerability(posts, top)
        bottom_vulnerability == MeanVulnerability(posts, bottom)
        vulnerability_diff == RSub(bottom_vulnerability, top_vulnerability)
    IN  Clamp(RInt(0), RInt(10), RAdd(RInt(5), vulnerability_diff))

\* Factor 3
vulnerability_preference(posts, top, bottom) ==
    LET top_vulnerability == MeanVulnerability(posts, top)
        bottom_vulnerability == MeanVulnerability(posts, bottom)
        vulnerability_diff == RSub(top_vulnerability, bottom_vulnerability)
    IN  Clamp(RInt(0), RInt(10), RAdd(RInt(5), vulnerability_diff))

\* positions of the posts with comment_count > 0, in input order
posts_with_comments(posts) ==
    SelectSeq([i \in 1..Len(posts) |-> i], LAMBDA i : posts[i].comment_count > 0)

MIN_COMMENTED == 5

\* variant: the two most discussed posts whatever the count
top_discussed_two(posts) ==
    LET commented == posts_with_comments(posts)
        order == SortedDesc([k \in 1..Len(commented) |->
                                RInt(posts[commented[k]].comment_count)])
        by_comments == [k \in 1..Len(order) |-> commented[order[k]]]
    IN  SliceFirst(by_comments, 2)

\* by_comments[:len(by_comments) // 4] if len(by_comments) >= 4 else by_comments[:2]
top_discussed(posts) ==
    LET commented == posts_with_comments(posts)
        order == SortedDesc([k \in 1..Len(commented) |->
                                RInt(posts[commented[k]].comment_count)])
        by_comments == [k \in 1..Len(order) |-> commented[order[k]]]
    IN  IF Len(by_comments) >= 4
        THEN SubSeq(by_comments, 1, Len(by_comments) \div 4)
        ELSE SliceFirst(by_comments, 2)

authenticity_scores(posts, discussed) ==
    [k \in 1..Len(discussed) |->
        RDiv(RAdd(posts[discussed[k]].formality_match,
                  posts[discussed[k]].vulnerability_weight), RInt(2))]

\* Factor 4
depth_correlation(posts) ==
    IF Len(posts_with_comments(posts)) >= MIN_COMMENTED
    THEN LET scores == authenticity_scores(posts, top_discussed(posts))
             avg_authenticity == RDiv(RSum(scores), RInt(Len(scores)))
         IN  Clamp(RInt(0), RInt(10), avg_authenticity)
    ELSE RInt(5)

\* the divisions of calculate_isc_score whose divisor is 0 on this batch
\* (lines 326, 336, 342, 343, 362); each would raise ZeroDivisionError
ZeroDivisors(posts, top, bottom) ==
    LET bottom_jargon == CountPenalised(posts, bottom, "jargon")
        bottom_links == CountPenalised(posts, bottom, "link")
    IN  (IF HasBottom(bottom_jargon) /\ bottom_jargon = 0 THEN {"jargon_ratio"} ELSE {})
        \cup (IF HasBottom(bottom_links) /\ bottom_links = 0 THEN {"link_ratio"} ELSE {})
        \cup (IF Len(top) = 0 THEN {"top_vulnerability"} ELSE {})
        \cup (IF Len(bottom) = 0 THEN {"bottom_vulnerability"} ELSE {})
        \cup (IF Len(posts_with_comments(posts)) >= MIN_COMMENTED
                 /\ Len(top_discussed(posts)) = 0
              THEN {"avg_authenticity"} ELSE {})

\* variant: the floor is one post lower
MIN_POSTS_lower == 10 - 1

MIN_POSTS == 10

\* the outcome of a call: a raised exception or the returned value
Raise(error, message) == [raised |-> TRUE, error |-> error, message |-> message]
Return(value) == [raised |-> FALSE, value |-> value]

\* the weighted average of the four factors
WeightedIsc(jargon, link, vulnerability, depth) ==
    RAdd(RAdd(RAdd(RMul(jargon, Rat(3, 10)), RMul(link, Rat(2, 10))),
              RMul(vulnerability, Rat(3, 10))),
         RMul(depth, Rat(2, 10)))

calculate_isc_score(posts) ==
    IF Len(posts) < MIN_POSTS
    THEN Raise("ValueError",
               <<"Insufficient data: need at least ", MIN_POSTS, " posts, got ", Len(posts)>>)
    ELSE LET top == top_posts(posts)
             bottom == bottom_posts(posts)
         IN  IF ZeroDivisors(posts, top, bottom) # {}
             THEN Raise("ZeroDivisionError", <<"division by zero">>)
             ELSE LET isc == WeightedIsc(jargon_sensitivity(posts, top, bottom),
                                         link_sensitivity(posts, top, bottom),
                                         vulnerability_preference(posts, top, bottom),
                                         depth_correlation(posts))
                  IN  Return(Round(Clamp(RInt(1), RInt(10), isc), 10))

----------------------------------------------------------------------------
\* Inputs: post texts and feature values the scorers are applied to

TextEmpty == <<>>
TextPlain == <<"the", "tool", "works">>
TextQuestion == <<"does", "we", "ship", "?">>
TextPersonal == <<"I", "struggled", "with", "my", "journey", "?">>
TextStory == TextPersonal \o <<"we", "learned", "from", "our", "story">>
TextLongStory == TextStory \o <<"it", "worried", "me", "and", "us">>
TextConfession == TextStory \o TextStory \o TextPersonal
TextJargon1 == <<"they", "Leverage", "leverage", "the", "roi">>
TextJargon2 == <<"I", "leverage", "synergy", "Synergy">>
TextJargon3 == <<"scalable", "paradigm", "ROI", "tool">>
TextJargon4 == TextJargon3 \o <<"touch base">>
TextJargonMany == TextJargon2 \o TextJargon3
                  \o <<"disrupt", "disruptive", "reach out", "growth hacking">>
TextLink1 == <<"my", "tool", "https://a.io/x">>
TextLink2 == <<"www.c.com", "and", "http://b.org">>
TextSpam == TextJargon3 \o <<"https://a.io/x", "https://a.io/x", "www.c.com">>

Texts == {TextEmpty, TextPlain, TextQuestion, TextPersonal, TextStory, TextLongStory,
          TextConfession, TextJargon1, TextJargon2, TextJargon3, TextJargon4, TextJargonMany,
          TextLink1, TextLink2, TextSpam}

PostFormalities == {None, RInt(4), Rat(57, 8), RInt(13)}
PostAvgLengths == {None, RInt(8), Rat(3751, 250), RInt(30)}
PostLengthStds == {None, RInt(0), Rat(301, 100)}
CommunityFormalities == {None, RInt(4), Rat(13, 2)}
CommunityAvgLengths == {None, RInt(12), Rat(31, 2)}
CommunityLengthStds == {None, RInt(2), Rat(17, 4)}

PostDatas ==
    [raw_text : Texts, formality_score : PostFormalities,
     avg_sentence_length : PostAvgLengths, sentence_length_std : PostLengthStds]

CommunityAvgs ==
    [formality_level : CommunityFormalities, avg_sentence_length : CommunityAvgLengths,
     sentence_length_std : CommunityLengthStds]

\* the tables and the run of AnalysisService, where no run takes place
RunUnused ==
    /\ raw_posts = <<>>
    /\ community_profiles = <<>>
    /\ upserts = <<>>
    /\ pc = "idle"
    /\ run_args = None
    /\ todo = <<>>
    /\ errors = <<>>
    /\ posts_analyzed = 0
    /\ profiles_created = 0
    /\ result = None

\* the per-text analysers of app/analysis, where none is applied
AnalysisUnused ==
    /\ post_text = <<>>
    /\ jargon_penalty = None
    /\ penalties = None
    /\ texts = <<>>
    /\ forbidden_result = None
    /\ doc = None
    /\ vader_calls = 0
    /\ top_success_hooks = None

\* the checks of app/generation, where none is applied
GenerationUnused ==
    /\ draft_text = <<>>
    /\ forbidden_patterns = <<>>
    /\ blacklist_check = None
    /\ request = None
    /\ gating = None

BudgetUnused ==
    /\ cost_caps = None
    /\ usage_tracking = <<>>
    /\ budget_plan = None
    /\ budget = None

CollectionUnused ==
    /\ target_subreddits = <<>>
    /\ scrape_calls = <<>>
    /\ stored_posts = <<>>
    /\ collect_pc = "idle"
    /\ collect_todo = <<>>
    /\ collect_errors = <<>>
    /\ collect_counts = None
    /\ collect_result = None

ToneUnused ==
    /\ batch_results = <<>>
    /\ dominant_tone = None

MonitorUnused ==
    /\ shadow_table = None
    /\ clock = 0
    /\ detections = <<>>
    /\ alerts = 0
    /\ check_task = None
    /\ audit_task = None

TaskUnused ==
    /\ redis = None
    /\ tasks = None
    /\ streams = None

ServiceUnused ==
    /\ BudgetUnused
    /\ CollectionUnused
    /\ ToneUnused
    /\ MonitorUnused
    /\ TaskUnused

----------------------------------------------------------------------------
\* SpecScore: calculate_post_score applied to every input

ScoreInit ==
    /\ post_data \in PostDatas
    /\ community_avg \in CommunityAvgs
    /\ score_breakdown = None
    /\ posts_data = <<>>
    /\ isc_result = None
    /\ RunUnused
    /\ AnalysisUnused
    /\ GenerationUnused
    /\ ServiceUnused

ScorePost ==
    /\ UNCHANGED <<analysisVars, generationVars, serviceVars>>
    /\ score_breakdown = None
    /\ score_breakdown' = calculate_post_score(post_data, community_avg)
    /\ UNCHANGED <<post_data, community_avg, posts_data, isc_result, runVars>>

ScoreNext == ScorePost

SpecScore == ScoreInit /\ [][ScoreNext]_vars

----------------------------------------------------------------------------
\* Properties of the Post Scorer (SpecScore)

InRange(x) == RLe(RInt(0), x) /\ RLe(x, RInt(10))

Scored == score_breakdown # None

\* C1: every PostScore returned has total_score and each of the five
\* sub-scores in [0, 10], whatever the text and whichever features are missing.
C1_ScoreInRange ==
    Scored =>
        /\ InRange(score_breakdown.total_score)
        /\ InRange(score_breakdown.vulnerability_weight)
        /\ InRange(score_breakdown.rhythm_adherence)
        /\ InRange(score_breakdown.formality_match)
        /\ InRange(score_breakdown.marketing_jargon_penalty)
        /\ InRange(score_breakdown.link_density_penalty)

\* a post whose std penalty exceeds what the average-length term leaves
\* (10 - |30 - 12| floors at 0, then 0.5 * |3.01 - 2| is subtracted)
C1_Witness ==
    /\ Scored
    /\ post_data.avg_sentence_length = RInt(30)
    /\ post_data.sentence_length_std = Rat(301, 100)
    /\ community_avg.avg_sentence_length = RInt(12)
    /\ community_avg.sentence_length_std = RInt(2)
    /\ score_breakdown.rhythm_adherence = RInt(0)
    /\ score_breakdown.link_density_penalty = RInt(9)

WeightedTotal(sb) ==
    RSub(RSub(RAdd(RAdd(RMul(Rat(1, 4), sb.vulnerability_weight),
                        RMul(Rat(1, 4), sb.rhythm_adherence)),
                   RMul(Rat(1, 5), sb.formality_match)),
              RMul(Rat(3, 20), sb.marketing_jargon_penalty)),
         RMul(Rat(3, 20), sb.link_density_penalty))

\* C4: total_score = round(clamp(0.25*vulnerability + 0.25*rhythm + 0.20*formality
\* - 0.15*jargon - 0.15*link, 0, 10), 2), over the sub-scores of the same record.
C4_TotalIsWeightedSum ==
    Scored =>
        score_breakdown.total_score =
            Round(RMax(RInt(0), RMin(RInt(10), WeightedTotal(score_breakdown))), 100)

\* a score with both penalties at work whose weighted sum needs the rounding
C4_Witness ==
    /\ Scored
    /\ RLt(RInt(0), score_breakdown.marketing_jargon_penalty)
    /\ RLt(RInt(0), score_breakdown.link_density_penalty)
    /\ RLt(RInt(0), score_breakdown.total_score)
    /\ WeightedTotal(score_breakdown) # score_breakdown.total_score

ScoreKeys == {"vulnerability_weight", "rhythm_adherence", "formality_match",
              "marketing_jargon_penalty", "link_density_penalty", "total_score",
              "penalty_phrases"}

\* C9: the Post Scorer returns a complete PostScore for every input;
\* formality_match is 5.0 when either formality is missing, rhythm_adherence is
\* 5.0 when either average sentence length is missing, and an empty text has
\* both penalties 0.0 and no penalty phrases.
C9_TotalAndNeutral ==
    Scored =>
        /\ DOMAIN score_breakdown = ScoreKeys
        /\ \A k \in ScoreKeys \ {"penalty_phrases"} : score_breakdown[k] # None
        /\ (post_data.formality_score = None \/ community_avg.formality_level = None)
              => score_breakdown.formality_match = RInt(5)
        /\ (post_data.avg_sentence_length = None \/ community_avg.avg_sentence_length = None)
              => score_breakdown.rhythm_adherence = RInt(5)
        /\ post_data.raw_text = <<>> =>
              /\ score_breakdown.marketing_jargon_penalty = RInt(0)
              /\ score_breakdown.link_density_penalty = RInt(0)
              /\ score_breakdown.penalty_phrases = <<>>

\* the empty text scored with only the community formality missing
C9_Witness ==
    /\ Scored
    /\ post_data.raw_text = <<>>
    /\ post_data.formality_score # None
    /\ community_avg.formality_level = None
    /\ post_data.avg_sentence_length = None
    /\ score_breakdown.total_score = Rat(9, 4)

BothAveragesPresent ==
    post_data.avg_sentence_length # None /\ community_avg.avg_sentence_length # None

BothStdsPresent ==
    post_data.sentence_length_std # None /\ community_avg.sentence_length_std # None

\* the claimed rhythm value before any rounding
RhythmUnrounded ==
    LET base == RMax(RInt(0),
                     RSub(RInt(10), RAbs(RSub(post_data.avg_sentence_length,
                                              community_avg.avg_sentence_length))))
        pen == IF BothStdsPresent
               THEN RMin(RInt(2),
                         RMul(Rat(1, 2), RAbs(RSub(post_data.sentence_length_std,
                                                   community_avg.sentence_length_std))))
               ELSE RInt(0)
    IN  RSub(base, pen)

\* C10 as stated: with both averages present, rhythm_adherence equals
\* max(0, 10 - |post_avg - community_avg|) minus min(2, 0.5*|std diff|) when both
\* std-devs are present, clamped to [0, 10].
C10_RhythmExact ==
    (Scored /\ BothAveragesPresent) =>
        score_breakdown.rhythm_adherence = RMax(RInt(0), RMin(RInt(10), RhythmUnrounded))

\* C10 amended: the same value rounded to 2 decimals before the clamp to [0, 10].
C10_RhythmRounded ==
    (Scored /\ BothAveragesPresent) =>
        score_breakdown.rhythm_adherence =
            RMax(RInt(0), RMin(RInt(10), Round(RhythmUnrounded, 100)))

\* a post std-dev is present, the community's is not: no penalty is applied
C10_Witness ==
    /\ Scored
    /\ BothAveragesPresent
    /\ post_data.sentence_length_std = Rat(301, 100)
    /\ community_avg.sentence_length_std = None
    /\ post_data.avg_sentence_length = RInt(8)
    /\ score_breakdown.rhythm_adherence = RInt(6)

----------------------------------------------------------------------------
\* SpecIsc: calculate_isc_score applied to batches of scored posts

\* a collected post with its NLP features (analyze_posts_batch) and comment count
Post(text, formality, avg_length, length_std, comments) ==
    [raw_text |-> text, formality_score |-> formality, avg_sentence_length |-> avg_length,
     sentence_length_std |-> length_std, comment_count |-> comments]

PostStory == Post(TextStory, Rat(13, 2), RInt(12), RInt(2), 12)
PostJargon == Post(TextJargon2, RInt(4), RInt(8), None, 0)
PostSpam == Post(TextSpam, RInt(13), RInt(30), Rat(301, 100), 1)
PostPlain == Post(TextPlain, None, None, None, 3)
PostLink == Post(TextLink1, Rat(57, 8), Rat(3751, 250), Rat(301, 100), 30)

PostPool == {PostStory, PostJargon, PostSpam, PostPlain, PostLink}

IscCommunities ==
    {[formality_level |-> Rat(13, 2), avg_sentence_length |-> RInt(12),
      sentence_length_std |-> RInt(2)],
     [formality_level |-> None, avg_sentence_length |-> None, sentence_length_std |-> None]}

MaxPosts == 12
MaxKindChanges == 1

\* {**post, **nlp_result, **score_breakdown}
Merge(a, b) == [k \in DOMAIN a \cup DOMAIN b |-> IF k \in DOMAIN b THEN b[k] ELSE a[k]]

ScoredPost(post, community) == Merge(post, calculate_post_score(post, community))

\* the scored form of every pool post under every community average
ScoredPool == [c \in IscCommunities |-> [p \in PostPool |-> ScoredPost(p, c)]]

KindChanges(posts) == Cardinality({i \in 1..(Len(posts) - 1) : posts[i] # posts[i + 1]})

IscInit ==
    /\ post_data = None
    /\ community_avg \in IscCommunities
    /\ score_breakdown = None
    /\ posts_data = <<>>
    /\ isc_result = None
    /\ RunUnused
    /\ AnalysisUnused
    /\ GenerationUnused
    /\ ServiceUnused

AddScoredPost(post) ==
    /\ UNCHANGED <<analysisVars, generationVars, serviceVars>>
    /\ isc_result = None
    /\ Len(posts_data) < MaxPosts
    /\ KindChanges(Append(posts_data, ScoredPool[community_avg][post])) <= MaxKindChanges
    /\ posts_data' = Append(posts_data, ScoredPool[community_avg][post])
    /\ UNCHANGED <<post_data, community_avg, score_breakdown, isc_result, runVars>>

CalcIsc ==
    /\ UNCHANGED <<analysisVars, generationVars, serviceVars>>
    /\ isc_result = None
    /\ isc_result' = calculate_isc_score(posts_data)
    /\ UNCHANGED <<post_data, community_avg, score_breakdown, posts_data, runVars>>

IscNext == (\E post \in PostPool : AddScoredPost(post)) \/ CalcIsc

SpecIsc == IscInit /\ [][IscNext]_vars

IscDone == isc_result # None

----------------------------------------------------------------------------
\* Properties of the ISC Calculator (SpecIsc)

IscComputed == IscDone /\ Len(posts_data) >= 10

Range(seq) == {seq[k] : k \in 1..Len(seq)}

\* C2: on fewer than 10 posts calculate_isc_score raises the insufficient-data
\* error "need at least 10 posts, got N" and returns nothing; on 10 or more posts
\* it returns a value in [1.0, 10.0] and raises nothing.
C2_InsufficientData ==
    IscDone =>
        LET n == Len(posts_data)
        IN  /\ n < 10 =>
                /\ isc_result.raised
                /\ "value" \notin DOMAIN isc_result
                /\ isc_result.message = <<"Insufficient data: need at least ", 10,
                                          " posts, got ", n>>
            /\ n >= 10 =>
                /\ ~isc_result.raised
                /\ RLe(RInt(1), isc_result.value)
                /\ RLe(isc_result.value, RInt(10))

\* the call on exactly 9 posts
C2_Witness == IscDone /\ Len(posts_data) = 9 /\ isc_result.raised

ClaimMeanVulnerability(quartile) ==
    RDiv(RSum([k \in 1..Len(quartile) |-> posts_data[quartile[k]].vulnerability_weight]),
         RInt(Len(quartile)))

ClaimVulnerabilityPreference ==
    RMax(RInt(0), RMin(RInt(10),
        RAdd(RInt(5), RSub(ClaimMeanVulnerability(top_posts(posts_data)),
                           ClaimMeanVulnerability(bottom_posts(posts_data))))))

\* C5: on 10 or more posts the ISC is clamp(0.30*jargon_sensitivity +
\* 0.20*link_sensitivity + 0.30*vulnerability_preference + 0.20*depth_correlation,
\* 1, 10) rounded to 1 decimal, with vulnerability_preference =
\* clamp(5 + (mean top-quartile vulnerability - mean bottom-quartile vulnerability), 0, 10).
C5_IscFormula ==
    IscComputed =>
        /\ ~isc_result.raised
        /\ LET top == top_posts(posts_data)
               bottom == bottom_posts(posts_data)
               sum == RAdd(RAdd(RAdd(RMul(Rat(30, 100), jargon_sensitivity(posts_data, top, bottom)),
                                     RMul(Rat(20, 100), link_sensitivity(posts_data, top, bottom))),
                                RMul(Rat(30, 100), ClaimVulnerabilityPreference)),
                           RMul(Rat(20, 100), depth_correlation(posts_data)))
           IN  isc_result.value = Round(RMax(RInt(1), RMin(RInt(10), sum)), 10)

\* a batch whose top quartile is more vulnerable than its bottom quartile
C5_Witness ==
    /\ IscComputed
    /\ ~isc_result.raised
    /\ RLt(ClaimMeanVulnerability(bottom_posts(posts_data)),
           ClaimMeanVulnerability(top_posts(posts_data)))
    /\ RLt(RInt(5), ClaimVulnerabilityPreference)
    /\ RLt(ClaimVulnerabilityPreference, RInt(10))

TotalScore(i) == posts_data[i].total_score

\* quartile holds size distinct positions, and no post outside it has a
\* strictly higher (sign = 1) or strictly lower (sign = -1) total_score
IsExtremeQuartile(quartile, size, sign) ==
    /\ Len(quartile) = size
    /\ Cardinality(Range(quartile)) = size
    /\ Range(quartile) \subseteq 1..Len(posts_data)
    /\ \A i \in Range(quartile) : \A j \in (1..Len(posts_data)) \ Range(quartile) :
          IF sign = 1 THEN RLe(TotalScore(j), TotalScore(i))
          ELSE RLe(TotalScore(i), TotalScore(j))

QuartilesOfSize(size) ==
    /\ IsExtremeQuartile(top_posts(posts_data), size, 1)
    /\ IsExtremeQuartile(bottom_posts(posts_data), size, -1)

\* C6 as stated: the top quartile is the first ceil(N/4) posts by total_score
\* descending and the bottom quartile the last ceil(N/4).
C6_QuartileCeil ==
    IscComputed => QuartilesOfSize((Len(posts_data) + 3) \div 4)

\* C6 amended: the quartiles hold floor(N/4) posts each.
C6_QuartileFloor ==
    IscComputed => QuartilesOfSize(Len(posts_data) \div 4)

\* 12 posts of two different scores: 3 posts in each quartile
C6_Witness ==
    /\ IscComputed
    /\ Len(posts_data) = 12
    /\ Len(top_posts(posts_data)) = 3
    /\ RLt(TotalScore(bottom_posts(posts_data)[1]), TotalScore(top_posts(posts_data)[3]))

PenalisedIn(quartile, field) ==
    Cardinality({k \in 1..Len(quartile) : RLt(RInt(0), posts_data[quartile[k]][field])})

ClaimSensitivity(field) ==
    LET t == PenalisedIn(top_posts(posts_data), field)
        b == PenalisedIn(bottom_posts(posts_data), field)
    IN  IF b = 0 THEN RInt(5)
        ELSE RMax(RInt(0), RMin(RInt(10), RSub(RInt(10), Rat(5 * t, b))))

\* C7: jargon sensitivity is 5.0 when no bottom-quartile post has a jargon
\* penalty > 0 and otherwise clamp(10 - 5 * top count / bottom count, 0, 10); link
\* sensitivity likewise with the link-density penalty; no batch divides by zero.
C7_Sensitivity ==
    IscComputed =>
        /\ ~isc_result.raised
        /\ jargon_sensitivity(posts_data, top_posts(posts_data), bottom_posts(posts_data))
              = ClaimSensitivity("marketing_jargon_penalty")
        /\ link_sensitivity(posts_data, top_posts(posts_data), bottom_posts(posts_data))
              = ClaimSensitivity("link_density_penalty")

\* jargon in both quartiles, more of it in the top one; no link in the bottom one
C7_Witness ==
    /\ IscComputed
    /\ PenalisedIn(bottom_posts(posts_data), "marketing_jargon_penalty") > 0
    /\ PenalisedIn(top_posts(posts_data), "marketing_jargon_penalty")
          > PenalisedIn(bottom_posts(posts_data), "marketing_jargon_penalty")
    /\ PenalisedIn(bottom_posts(posts_data), "link_density_penalty") = 0

Commented == {i \in 1..Len(posts_data) : posts_data[i].comment_count > 0}

ClaimAuthenticityMean(subset) ==
    RDiv(RSum([k \in 1..Len(subset) |->
                  RDiv(RAdd(posts_data[subset[k]].formality_match,
                            posts_data[subset[k]].vulnerability_weight), RInt(2))]),
         RInt(Len(subset)))

\* subset is the first size posts of the commented posts by comment_count descending
IsMostDiscussed(subset, size) ==
    /\ Len(subset) = size
    /\ Cardinality(Range(subset)) = size
    /\ Range(subset) \subseteq Commented
    /\ \A i \in Range(subset) : \A j \in Commented \ Range(subset) :
          posts_data[j].comment_count <= posts_data[i].comment_count

DepthIsMeanOver(size) ==
    /\ IsMostDiscussed(top_discussed(posts_data), size)
    /\ depth_correlation(posts_data) =
          RMax(RInt(0), RMin(RInt(10), ClaimAuthenticityMean(top_discussed(posts_data))))

\* C8 as stated: depth correlation is 5.0 with fewer than 5 commented posts,
\* otherwise the clamped mean of (formality_match + vulnerability_weight)/2 over
\* the top quartile by comment_count, a subset of at least 2 posts.
C8_DepthAtLeastTwo ==
    IscComputed =>
        /\ Cardinality(Commented) < 5 => depth_correlation(posts_data) = RInt(5)
        /\ Cardinality(Commented) >= 5 =>
              /\ DepthIsMeanOver(Cardinality(Commented) \div 4)
              /\ Len(top_discussed(posts_data)) >= 2

\* C8 amended: the subset holds floor(k/4) of the k commented posts, which is at
\* least 1 post, and exactly 1 when k is 5, 6 or 7.
C8_DepthTopQuarter ==
    IscComputed =>
        /\ Cardinality(Commented) < 5 => depth_correlation(posts_data) = RInt(5)
        /\ Cardinality(Commented) >= 5 =>
              /\ DepthIsMeanOver(Cardinality(Commented) \div 4)
              /\ Len(top_discussed(posts_data)) >= 1
              /\ Cardinality(Commented) \in 5..7 => Len(top_discussed(posts_data)) = 1

\* 6 of the posts have comments: the factor is taken from the single most discussed
C8_Witness ==
    /\ IscComputed
    /\ Cardinality(Commented) = 6
    /\ Len(top_discussed(posts_data)) = 1
    /\ depth_correlation(posts_data) # RInt(5)

----------------------------------------------------------------------------
\* analysis_service.py: AnalysisService.run_analysis on one campaign

\* variant: the subreddit floor is one post lower
MIN_SUBREDDIT_POSTS_lower == 10 - 1

MIN_SUBREDDIT_POSTS == 10

\* a row of raw_posts before any analysis
RawPost(post, subreddit) ==
    Merge(post, [subreddit |-> subreddit, success_score |-> None, rhythm_metadata |-> None])

RowPool == {RawPost(PostStory, "python"), RawPost(PostJargon, "python"),
            RawPost(PostPlain, "startups")}

Subreddits == {row.subreddit : row \in RowPool}

\* a profile left in community_profiles by an earlier run
EarlierProfile(subreddit) ==
    [subreddit |-> subreddit, isc_score |-> Rat(62, 10), avg_sentence_length |-> RInt(12),
     formality_level |-> Rat(13, 2), sample_size |-> 10,
     style_metrics |-> <<"style_metrics", "earlier run">>,
     style_guide |-> <<"style_guide", "earlier run">>]

NoProfiles == [subreddit \in Subreddits |-> None]

\* analyze_posts_batch: the features of one post
nlp_result(row) ==
    [formality_score |-> row.formality_score,
     avg_sentence_length |-> row.avg_sentence_length,
     sentence_length_std |-> row.sentence_length_std]

\* statistics.mean(valid) if valid else None, over the non-None values of a field
MeanOfValid(nlp_results, field) ==
    LET valid == SelectSeq([i \in 1..Len(nlp_results) |-> nlp_results[i][field]],
                           LAMBDA v : v # None)
    IN  IF valid # <<>> THEN RDiv(RSum(valid), RInt(Len(valid))) ELSE None

_calculate_community_averages(nlp_results) ==
    [formality_level |-> MeanOfValid(nlp_results, "formality_score"),
     avg_sentence_length |-> MeanOfValid(nlp_results, "avg_sentence_length"),
     sentence_length_std |-> MeanOfValid(nlp_results, "sentence_length_std")]

_build_community_profile(subreddit, isc_score, nlp_results, scored_posts, style_metrics, style_guide) ==
    LET profile == [subreddit |-> subreddit,
                    isc_score |-> isc_score,
                    avg_sentence_length |-> MeanOfValid(nlp_results, "avg_sentence_length"),
                    formality_level |-> MeanOfValid(nlp_results, "formality_score"),
                    sample_size |-> Len(scored_posts)]
        with_metrics == IF style_metrics # None
                        THEN Merge(profile, [style_metrics |-> style_metrics])
                        ELSE profile
    IN  IF style_guide # None
        THEN Merge(with_metrics, [style_guide |-> style_guide])
        ELSE with_metrics

\* upsert(row, on_conflict="campaign_id,subreddit"): insert, or update the columns given
Upsert(profiles, row) ==
    [profiles EXCEPT ![row.subreddit] = IF @ = None THEN row ELSE Merge(@, row)]

\* the keys of posts_by_subreddit, in the order the grouping loop first meets them
RECURSIVE FirstSeen(_, _)
FirstSeen(posts, seen) ==
    IF posts = <<>> THEN <<>>
    ELSE IF Head(posts).subreddit \in seen THEN FirstSeen(Tail(posts), seen)
         ELSE <<Head(posts).subreddit>>
              \o FirstSeen(Tail(posts), seen \cup {Head(posts).subreddit})

\* posts_by_subreddit[subreddit], as positions in raw_posts
subreddit_posts(subreddit) ==
    SelectSeq([i \in 1..Len(raw_posts) |-> i], LAMBDA i : raw_posts[i].subreddit = subreddit)

ErrorEntry(error, subreddit, detail) ==
    [error |-> error, subreddit |-> subreddit, detail |-> detail]

AnalysisResult(status, analyzed, created, errs) ==
    [status |-> status, posts_analyzed |-> analyzed, profiles_created |-> created,
     errors |-> errs]

\* what can go wrong in steps 1 to 3: analyze_posts_batch raises, or the update of
\* the first or of the last post of the subreddit raises
ScoreFaults == {"none", "nlp", "update_first", "update_last"}

\* what can go wrong in steps 5 to 7: generate_style_guide degrades to the empty
\* guide or raises; the upsert fails on a missing style column or otherwise
ProfileFaults == {"none", "guide_empty", "guide_raised", "upsert_column", "upsert_other"}

MaxRunPosts == 11

RunInit ==
    /\ post_data = None
    /\ community_avg = None
    /\ score_breakdown = None
    /\ posts_data = <<>>
    /\ isc_result = None
    /\ raw_posts = <<>>
    /\ community_profiles \in
          {NoProfiles, [NoProfiles EXCEPT !["python"] = EarlierProfile("python")]}
    /\ upserts = <<>>
    /\ pc = "idle"
    /\ run_args = None
    /\ todo = <<>>
    /\ errors = <<>>
    /\ posts_analyzed = 0
    /\ profiles_created = 0
    /\ result = None
    /\ AnalysisUnused
    /\ GenerationUnused
    /\ ServiceUnused

\* the collection stores one more post of the campaign
InsertPost(row) ==
    /\ UNCHANGED <<analysisVars, generationVars, serviceVars>>
    /\ pc = "idle"
    /\ Len(raw_posts) < MaxRunPosts
    /\ KindChanges(Append(raw_posts, row)) <= MaxKindChanges
    /\ raw_posts' = Append(raw_posts, row)
    /\ UNCHANGED <<scorerVars, community_profiles, upserts, pc, run_args, todo, errors,
                   posts_analyzed, profiles_created, result>>

\* run_analysis up to the loop: fetch, early exits, grouping by subreddit
StartAnalysis(force_refresh, with_user) ==
    /\ UNCHANGED <<analysisVars, generationVars, serviceVars>>
    /\ pc = "idle"
    /\ run_args' = [force_refresh |-> force_refresh, with_user |-> with_user]
    /\ IF raw_posts = <<>>
       THEN /\ result' = Raise("AppError", <<"RESOURCE_NOT_FOUND", "No posts found for campaign">>)
            /\ pc' = "done"
            /\ todo' = <<>>
       ELSE IF ~force_refresh /\ \E sub \in Subreddits : community_profiles[sub] # None
       THEN /\ result' = AnalysisResult("exists", 0,
                            Cardinality({sub \in Subreddits : community_profiles[sub] # None}),
                            <<"Profiles already exist. Use force_refresh=True to re-analyze.">>)
            /\ pc' = "done"
            /\ todo' = <<>>
       ELSE /\ result' = None
            /\ pc' = "loop"
            /\ todo' = FirstSeen(raw_posts, {})
    /\ UNCHANGED <<scorerVars, raw_posts, community_profiles, upserts, errors,
                   posts_analyzed, profiles_created>>

\* the update of raw_posts for the first count posts of the subreddit
UpdateScores(ids, nlp_results, breakdowns, count) ==
    [i \in 1..Len(raw_posts) |->
        IF \E j \in 1..count : ids[j] = i
        THEN LET j == CHOOSE j \in 1..count : ids[j] = i
             IN  [raw_posts[i] EXCEPT !.success_score = breakdowns[j].total_score,
                                      !.rhythm_metadata = Merge(nlp_results[j], breakdowns[j])]
        ELSE raw_posts[i]]

\* the loop over posts_by_subreddit.items(), steps 1 to 3: the size check, NLP,
\* community averages, and the scoring and update of each post
ScoreSubreddit ==
    /\ UNCHANGED <<analysisVars, generationVars, serviceVars>>
    /\ pc = "loop"
    /\ todo # <<>>
    /\ LET subreddit == Head(todo)
           ids == subreddit_posts(subreddit)
           n == Len(ids)
           nlp_results == [j \in 1..n |-> nlp_result(raw_posts[ids[j]])]
           community == _calculate_community_averages(nlp_results)
           breakdowns == [j \in 1..n |-> calculate_post_score(raw_posts[ids[j]], community)]
       IN  IF n < MIN_SUBREDDIT_POSTS
           THEN /\ errors' = Append(errors, ErrorEntry("Insufficient data", subreddit,
                                                       <<n, "posts (need 10+)">>))
                /\ todo' = Tail(todo)
                /\ UNCHANGED <<raw_posts, posts_analyzed, posts_data, pc>>
           ELSE \E fault \in ScoreFaults :
                LET written == IF fault = "nlp" \/ fault = "update_first" THEN 0
                               ELSE IF fault = "update_last" THEN n - 1
                               ELSE n
                IN  /\ raw_posts' = UpdateScores(ids, nlp_results, breakdowns, written)
                    /\ posts_analyzed' = posts_analyzed + written
                    /\ IF fault = "none"
                       THEN /\ posts_data' =
                                 [j \in 1..n |-> Merge(Merge(raw_posts[ids[j]], nlp_results[j]),
                                                       breakdowns[j])]
                            /\ pc' = "scored"
                            /\ UNCHANGED <<errors, todo>>
                       ELSE /\ errors' = Append(errors,
                                                ErrorEntry("Error analyzing", subreddit, fault))
                            /\ todo' = Tail(todo)
                            /\ UNCHANGED <<posts_data, pc>>
    /\ UNCHANGED <<post_data, community_avg, score_breakdown, isc_result,
                   community_profiles, upserts, run_args, profiles_created, result>>

\* step 4: the ISC of the scored posts
IscSubreddit ==
    /\ UNCHANGED <<analysisVars, generationVars, serviceVars>>
    /\ pc = "scored"
    /\ LET isc == calculate_isc_score(posts_data)
       IN  IF isc.raised
           THEN /\ errors' = Append(errors,
                      ErrorEntry(IF isc.error = "ValueError" THEN "ISC calculation failed"
                                 ELSE "Error analyzing", Head(todo), isc.message))
                /\ todo' = Tail(todo)
                /\ pc' = "loop"
                /\ UNCHANGED isc_result
           ELSE /\ isc_result' = isc
                /\ pc' = "isc"
                /\ UNCHANGED <<errors, todo>>
    /\ UNCHANGED <<post_data, community_avg, score_breakdown, posts_data, raw_posts,
                   community_profiles, upserts, run_args, posts_analyzed,
                   profiles_created, result>>

\* steps 5 to 7: style data, the profile and its upsert
ProfileSubreddit ==
    /\ UNCHANGED <<analysisVars, generationVars, serviceVars>>
    /\ pc = "isc"
    /\ pc' = "loop"
    /\ todo' = Tail(todo)
    /\ \E fault \in ProfileFaults :
        LET subreddit == Head(todo)
            nlp_results == [j \in 1..Len(posts_data) |-> nlp_result(posts_data[j])]
            style_metrics == <<"style_metrics", "this run">>
            style_guide ==
                IF ~run_args.with_user \/ fault = "guide_raised" THEN None
                ELSE IF fault = "guide_empty" THEN <<"style_guide", "empty">>
                ELSE <<"style_guide", "this run">>
            guide_errors ==
                IF fault = "guide_raised"
                THEN <<ErrorEntry("Style guide generation failed", subreddit, None)>>
                ELSE <<>>
            profile_data ==
                _build_community_profile(subreddit, isc_result.value, nlp_results,
                                         posts_data, style_metrics, style_guide)
            fallback_data ==
                [k \in DOMAIN profile_data \ {"style_metrics", "style_guide"} |->
                    profile_data[k]]
        IN  /\ fault \in {"guide_empty", "guide_raised"} => run_args.with_user
            /\ IF fault = "upsert_other"
               THEN /\ errors' = Append(errors \o guide_errors,
                                        ErrorEntry("Error analyzing", subreddit, fault))
                    /\ UNCHANGED <<community_profiles, upserts, profiles_created>>
               ELSE IF fault = "upsert_column"
               THEN /\ community_profiles' = Upsert(community_profiles, fallback_data)
                    /\ upserts' = Append(upserts, fallback_data)
                    /\ errors' = Append(errors \o guide_errors,
                                        ErrorEntry("Style columns missing", subreddit, None))
                    /\ profiles_created' = profiles_created + 1
               ELSE /\ community_profiles' = Upsert(community_profiles, profile_data)
                    /\ upserts' = Append(upserts, profile_data)
                    /\ errors' = errors \o guide_errors
                    /\ profiles_created' = profiles_created + 1
    /\ UNCHANGED <<post_data, community_avg, score_breakdown, posts_data, isc_result,
                   raw_posts, run_args, posts_analyzed, result>>

\* the return after the loop
FinishAnalysis ==
    /\ UNCHANGED <<analysisVars, generationVars, serviceVars>>
    /\ pc = "loop"
    /\ todo = <<>>
    /\ pc' = "done"
    /\ result' = AnalysisResult("complete", posts_analyzed, profiles_created, errors)
    /\ UNCHANGED <<scorerVars, raw_posts, community_profiles, upserts, run_args, todo,
                   errors, posts_analyzed, profiles_created>>

Next ==
    \/ \E row \in RowPool : InsertPost(row)
    \/ \E force_refresh, with_user \in BOOLEAN : StartAnalysis(force_refresh, with_user)
    \/ ScoreSubreddit
    \/ IscSubreddit
    \/ ProfileSubreddit
    \/ FinishAnalysis

Spec == RunInit /\ [][Next]_vars

----------------------------------------------------------------------------
\* Properties of run_analysis

\* the number of posts the campaign holds for a subreddit
PostsOf(subreddit) ==
    Cardinality({i \in 1..Len(raw_posts) : raw_posts[i].subreddit = subreddit})

\* the run has upserted a profile for the subreddit
ProfileWritten(subreddit) ==
    \E k \in 1..Len(upserts) : upserts[k].subreddit = subreddit

\* the run has updated a post of the subreddit (rows are unscored before the run)
ScoreWritten(subreddit) ==
    \E i \in 1..Len(raw_posts) :
        /\ raw_posts[i].subreddit = subreddit
        /\ raw_posts[i].success_score # None \/ raw_posts[i].rhythm_metadata # None

ErrorsFor(subreddit) ==
    {k \in 1..Len(errors) : errors[k].subreddit = subreddit}

RunComplete ==
    pc = "done" /\ "status" \in DOMAIN result /\ result.status = "complete"

\* C3: in every run of run_analysis a profile is written for a subreddit only if
\* the subreddit has at least 10 posts, and every profile written has
\* sample_size >= 10 (the number of posts of the subreddit); a subreddit with
\* fewer than 10 posts gets no profile write and no score write, and when the run
\* returns it has an "Insufficient data" error entry, while every other subreddit
\* of the campaign has been processed: it has a profile or an error entry of its own
C3_ProfileNeedsTenPosts ==
    /\ \A k \in 1..Len(upserts) :
          /\ upserts[k].sample_size >= 10
          /\ upserts[k].sample_size = PostsOf(upserts[k].subreddit)
    /\ \A subreddit \in Subreddits :
          /\ ProfileWritten(subreddit) => PostsOf(subreddit) >= 10
          /\ community_profiles[subreddit] # None =>
                community_profiles[subreddit].sample_size >= 10
          /\ PostsOf(subreddit) < 10 =>
                ~ProfileWritten(subreddit) /\ ~ScoreWritten(subreddit)
    /\ RunComplete =>
          \A subreddit \in Subreddits :
              /\ PostsOf(subreddit) \in 1..9 =>
                    /\ ErrorsFor(subreddit) # {}
                    /\ \A k \in ErrorsFor(subreddit) :
                          /\ errors[k].error = "Insufficient data"
                          /\ errors[k].detail[1] = PostsOf(subreddit)
              /\ PostsOf(subreddit) >= 10 =>
                    \/ ProfileWritten(subreddit)
                    \/ \E k \in ErrorsFor(subreddit) : errors[k].error # "Insufficient data"

\* the first subreddit of the campaign is skipped for having too few posts, and the
\* run goes on to score the posts of the next one and to write its profile
C3_Witness ==
    /\ RunComplete
    /\ \E small, large \in Subreddits :
          /\ raw_posts[1].subreddit = small
          /\ PostsOf(small) \in 1..9
          /\ \E k \in ErrorsFor(small) : errors[k].error = "Insufficient data"
          /\ PostsOf(large) >= 10
          /\ ProfileWritten(large)
          /\ ScoreWritten(large)
          /\ community_profiles[large].sample_size = PostsOf(large)
          /\ result.profiles_created = 1

\* C18: after a force-refresh run writes a profile for a key for which an
\* earlier profile is stored, the stored profile for that key holds only values
\* computed by the new run: it is the row the run wrote, no field of the earlier
\* profile survives (style_metrics and style_guide included, when the run produced
\* none or fell back to the upsert without style columns), and the key has one
\* profile
C18_ProfileFullyReplaced ==
    [][(/\ pc = "isc"
        /\ run_args.force_refresh
        /\ community_profiles[Head(todo)] # None
        /\ Len(upserts') = Len(upserts) + 1)
       => community_profiles'[Head(todo)] = upserts'[Len(upserts')]]_vars

----------------------------------------------------------------------------
\* SpecJargon: calculate_marketing_jargon_penalty applied to every text made of
\* tokens of JargonVocabulary, taken in the order of the vocabulary

JargonVocabulary == <<"Leverage", "leverage", "synergy", "Synergy", "paradigm", "scalable",
                      "ROI", "roi", "disrupt", "revolutionary", "touch base", "game-changer",
                      "Leverage", "tool">>

MaxJargonTokens == 12

\* the tokens of vocabulary at the positions of chosen, in order
RECURSIVE TokensAt(_, _, _)
TokensAt(vocabulary, chosen, i) ==
    IF i > Len(vocabulary) THEN <<>>
    ELSE (IF i \in chosen THEN <<vocabulary[i]>> ELSE <<>>)
         \o TokensAt(vocabulary, chosen, i + 1)

JargonTexts == {TokensAt(JargonVocabulary, chosen, 1) : chosen \in SUBSET (1..MaxJargonTokens)}

JargonInit ==
    /\ post_text \in JargonTexts
    /\ jargon_penalty = None
    /\ penalties = None
    /\ texts = <<>>
    /\ forbidden_result = None
    /\ doc = None
    /\ vader_calls = 0
    /\ top_success_hooks = None
    /\ post_data = None
    /\ community_avg = None
    /\ score_breakdown = None
    /\ posts_data = <<>>
    /\ isc_result = None
    /\ RunUnused
    /\ GenerationUnused
    /\ ServiceUnused

JargonPenalty ==
    /\ jargon_penalty = None
    /\ jargon_penalty' = calculate_marketing_jargon_penalty(post_text)
    /\ UNCHANGED <<post_text, penalties, texts, forbidden_result, doc, vader_calls,
                   top_success_hooks, scorerVars, runVars, generationVars, serviceVars>>

JargonNext == JargonPenalty

SpecJargon == JargonInit /\ [][JargonNext]_vars

\* the number of distinct jargon phrases of the text, compared in lower case
DistinctJargon ==
    Cardinality({lower(post_text[i]) : i \in
        {j \in 1..Len(post_text) :
            \E k \in 1..Len(JARGON_PATTERNS) : PatternMatches(JARGON_PATTERNS[k], post_text[j])}})

ClaimJargonPenalty(c) ==
    IF c = 0 THEN RInt(0)
    ELSE IF c = 1 THEN RInt(3)
    ELSE IF c = 2 THEN RInt(5)
    ELSE IF c = 3 THEN RInt(8)
    ELSE RMin(RInt(10), RAdd(RInt(8), RMul(Rat(1, 2), RInt(c - 3))))

ClaimJargonSeverity(c) ==
    IF c = 1 THEN "low" ELSE IF c = 2 THEN "medium" ELSE "high"

----------------------------------------------------------------------------
\* pattern_extractor.py

\* PATTERN_CATEGORIES, in the order of the dict
PATTERN_CATEGORIES == <<
    [category |-> "Promotional", patterns |-> <<
        Pattern({"affiliate link"}, TRUE),
        Pattern({"discount code"}, TRUE),
        Pattern({"coupon"}, TRUE),
        Pattern({"promo code"}, TRUE),
        Pattern({"check out my"}, TRUE),
        Pattern({"i made a"}, TRUE),
        Pattern({"special offer"}, TRUE),
        Pattern({"limited time"}, TRUE),
        Pattern({"free trial"}, TRUE),
        Pattern({"sign up now", "sign up today"}, TRUE) >>],
    [category |-> "Self-referential", patterns |-> <<
        Pattern({"my product"}, TRUE),
        Pattern({"my tool"}, TRUE),
        Pattern({"i built"}, TRUE),
        Pattern({"my startup"}, TRUE),
        Pattern({"my company"}, TRUE),
        Pattern({"my app"}, TRUE),
        Pattern({"my service"}, TRUE),
        Pattern({"our platform"}, TRUE),
        Pattern({"my business"}, TRUE) >>],
    [category |-> "Link patterns", patterns |-> <<
        Pattern({"bit.ly/"}, TRUE),
        Pattern({"tinyurl.com/"}, TRUE),
        Pattern({"goo.gl/"}, TRUE),
        Pattern({"?utm_"}, TRUE),
        Pattern({"?ref="}, TRUE),
        Pattern({"amazon.com/dp/ref="}, TRUE),
        Pattern({"https://a.io/x http://b.org"}, TRUE) >>],
    [category |-> "Low-effort", patterns |-> <<
        Pattern({"ok", "Ok", "thoughts?", "Thoughts?", "!!!!"}, FALSE),
        Pattern({"thoughts?"}, TRUE),
        Pattern({"any feedback?"}, TRUE),
        Pattern({"what do you think?"}, TRUE),
        Pattern({"here is ", "this is ", "it is "}, TRUE) >>],
    [category |-> "Spam indicators", patterns |-> <<
        Pattern({"!!!", "!!!!"}, FALSE),
        Pattern({"BUY NOW BUY NOW BUY NOW"}, FALSE),
        Pattern({"win big now win big now win big now "}, FALSE),
        Pattern({"a line of 500 characters"}, FALSE),
        Pattern({"five emojis"}, FALSE) >>],
    [category |-> "Off-topic", patterns |-> <<
        Pattern({"click here", "clickbait"}, TRUE),
        Pattern({"you won't believe"}, TRUE),
        Pattern({"shocking"}, TRUE) >> ] >>

Categories == {PATTERN_CATEGORIES[c].category : c \in 1..Len(PATTERN_CATEGORIES)}

\* pattern.search(text)
search(pattern, post) == findall(pattern, post) # <<>>

\* variant: one fifth of the posts is already high
pattern_severity_inclusive(matches_in_posts, total_posts) ==
    LET percentage == RMul(Rat(matches_in_posts, total_posts), RInt(100))
    IN  IF RLe(RInt(20), percentage) THEN "high"
        ELSE IF RLe(RInt(10), percentage) THEN "medium"
        ELSE "low"

\* percentage = (matches_in_posts / total_posts) * 100 and its severity
pattern_severity(matches_in_posts, total_posts) ==
    LET percentage == RMul(Rat(matches_in_posts, total_posts), RInt(100))
    IN  IF RLt(RInt(20), percentage) THEN "high"
        ELSE IF RLe(RInt(10), percentage) THEN "medium"
        ELSE "low"

\* matches_in_posts of one pattern
matches_in_posts(pattern, corpus) ==
    Cardinality({i \in 1..Len(corpus) : search(pattern, corpus[i])})

\* variant: every matching (pattern, post) pair of the category is counted
category_count_matches(patterns, corpus) ==
    LET Sum[k \in 0..Len(patterns)] ==
            IF k = 0 THEN 0 ELSE Sum[k - 1] + matches_in_posts(patterns[k], corpus)
    IN  Sum[Len(patterns)]

\* len(matched_posts) of one category
category_count(patterns, corpus) ==
    Cardinality({i \in 1..Len(corpus) :
                    \E k \in 1..Len(patterns) : search(patterns[k], corpus[i])})

\* the entries appended to pattern_details for the patterns k.. of one category
RECURSIVE category_details(_, _, _, _)
category_details(c, k, corpus, total_posts) ==
    LET patterns == PATTERN_CATEGORIES[c].patterns
    IN  IF k > Len(patterns) THEN <<>>
        ELSE LET matches == matches_in_posts(patterns[k], corpus)
             IN  (IF matches > 0
                  THEN << [category |-> PATTERN_CATEGORIES[c].category,
                           pattern_description |-> <<c, k>>,
                           match_count |-> matches,
                           severity |-> pattern_severity(matches, total_posts)] >>
                  ELSE <<>>)
                 \o category_details(c, k + 1, corpus, total_posts)

RECURSIVE pattern_details(_, _)
pattern_details(c, corpus) ==
    IF c > Len(PATTERN_CATEGORIES) THEN <<>>
    ELSE category_details(c, 1, corpus, Len(corpus)) \o pattern_details(c + 1, corpus)

\* variant: an entry goes behind the entries of equal match_count that follow it
RECURSIVE SortTiesReversed(_)
SortTiesReversed(details) ==
    IF details = <<>> THEN <<>>
    ELSE LET rest == SortTiesReversed(Tail(details))
             ahead == SelectSeq(rest, LAMBDA e : e.match_count >= Head(details).match_count)
             behind == SelectSeq(rest, LAMBDA e : e.match_count < Head(details).match_count)
         IN  ahead \o <<Head(details)>> \o behind

\* pattern_details.sort(key=match_count, reverse=True): stable insertion
RECURSIVE SortByMatchCount(_)
SortByMatchCount(details) ==
    IF details = <<>> THEN <<>>
    ELSE LET rest == SortByMatchCount(Tail(details))
             ahead == SelectSeq(rest, LAMBDA e : e.match_count > Head(details).match_count)
             behind == SelectSeq(rest, LAMBDA e : e.match_count <= Head(details).match_count)
         IN  ahead \o <<Head(details)>> \o behind

extract_forbidden_patterns(corpus) ==
    IF corpus = <<>> THEN [by_category |-> <<>>, detected_patterns |-> <<>>]
    ELSE [by_category |->
              [category \in Categories |->
                  LET c == CHOOSE c \in 1..Len(PATTERN_CATEGORIES) :
                               PATTERN_CATEGORIES[c].category = category
                  IN  category_count(PATTERN_CATEGORIES[c].patterns, corpus)],
          detected_patterns |-> SortByMatchCount(pattern_details(1, corpus))]

\* the severity check_post_penalties assigns by category
category_severity(category) ==
    IF category \in {"Promotional", "Spam indicators"} THEN "high"
    ELSE IF category \in {"Self-referential", "Link patterns"} THEN "medium"
    ELSE "low"

\* the matches of pattern.finditer(text) for the patterns k.. of the c-th category
\* and for the categories after it, in the order the loops meet them
RECURSIVE finditer_all(_, _, _)
finditer_all(c, k, post) ==
    IF c > Len(PATTERN_CATEGORIES) THEN <<>>
    ELSE IF k > Len(PATTERN_CATEGORIES[c].patterns) THEN finditer_all(c + 1, 1, post)
    ELSE LET found == findall(PATTERN_CATEGORIES[c].patterns[k], post)
         IN  [i \in 1..Len(found) |->
                 [phrase |-> found[i], category |-> PATTERN_CATEGORIES[c].category]]
             \o finditer_all(c, k + 1, post)

\* variant: a later match of a phrase replaces the entry of an earlier one
RECURSIVE penalties_last_wins(_, _)
penalties_last_wins(matches, seen_phrases) ==
    IF matches = <<>> THEN <<>>
    ELSE LET rest == Tail(matches)
             again == \E i \in 1..Len(rest) : lower(rest[i].phrase) = lower(Head(matches).phrase)
         IN  IF again THEN penalties_last_wins(rest, seen_phrases)
             ELSE << [phrase |-> Head(matches).phrase,
                      severity |-> category_severity(Head(matches).category),
                      category |-> Head(matches).category] >>
                  \o penalties_last_wins(rest, seen_phrases)

\* the body of the loops: a match is appended unless phrase.lower() was seen
RECURSIVE penalties_of(_, _)
penalties_of(matches, seen_phrases) ==
    IF matches = <<>> THEN <<>>
    ELSE IF lower(Head(matches).phrase) \in seen_phrases
         THEN penalties_of(Tail(matches), seen_phrases)
         ELSE << [phrase |-> Head(matches).phrase,
                  severity |-> category_severity(Head(matches).category),
                  category |-> Head(matches).category] >>
              \o penalties_of(Tail(matches), seen_phrases \cup {lower(Head(matches).phrase)})

check_post_penalties(post) ==
    IF post = <<>> THEN <<>>
    ELSE penalties_of(finditer_all(1, 1, post), {})

----------------------------------------------------------------------------
\* SpecPatterns: extract_forbidden_patterns applied to every corpus of up to
\* MaxTexts posts that lists its posts kind by kind, in the order of CorpusKinds

CorpusPlain == <<"the", "tool", "works">>
CorpusSelf == <<"My tool", "my tool", "I built">>
CorpusPromo == <<"free trial", "my tool", "!!!">>
CorpusLowEffort == <<"Thoughts?">>

CorpusKinds == <<CorpusPlain, CorpusSelf, CorpusPromo, CorpusLowEffort>>

MaxTexts == 11

KindOf(post) == CHOOSE k \in 1..Len(CorpusKinds) : CorpusKinds[k] = post

PatternsInit ==
    /\ texts = <<>>
    /\ forbidden_result = None
    /\ post_text = <<>>
    /\ jargon_penalty = None
    /\ penalties = None
    /\ doc = None
    /\ vader_calls = 0
    /\ top_success_hooks = None
    /\ post_data = None
    /\ community_avg = None
    /\ score_breakdown = None
    /\ posts_data = <<>>
    /\ isc_result = None
    /\ RunUnused
    /\ GenerationUnused
    /\ ServiceUnused

AddText(post) ==
    /\ forbidden_result = None
    /\ Len(texts) < MaxTexts
    /\ texts # <<>> => KindOf(texts[Len(texts)]) <= KindOf(post)
    /\ texts' = Append(texts, post)
    /\ UNCHANGED <<forbidden_result, post_text, jargon_penalty, penalties, doc, vader_calls,
                   top_success_hooks, scorerVars, runVars, generationVars, serviceVars>>

ExtractPatterns ==
    /\ forbidden_result = None
    /\ forbidden_result' = extract_forbidden_patterns(texts)
    /\ UNCHANGED <<texts, post_text, jargon_penalty, penalties, doc, vader_calls,
                   top_success_hooks, scorerVars, runVars, generationVars, serviceVars>>

PatternsNext ==
    \/ \E k \in 1..Len(CorpusKinds) : AddText(CorpusKinds[k])
    \/ ExtractPatterns

SpecPatterns == PatternsInit /\ [][PatternsNext]_vars

\* the posts of the corpus in which the k-th pattern of the c-th category matches
PostsMatching(c, k) ==
    {i \in 1..Len(texts) :
        \E j \in 1..Len(texts[i]) :
            PatternMatches(PATTERN_CATEGORIES[c].patterns[k], texts[i][j])}

\* the entries of the summary for the k-th pattern of the c-th category
EntriesOf(c, k) ==
    {e \in 1..Len(forbidden_result.detected_patterns) :
        forbidden_result.detected_patterns[e].pattern_description = <<c, k>>}

ClaimSeverity(m, total) ==
    IF 100 * m > 20 * total THEN "high"
    ELSE IF 10 * total <= 100 * m /\ 100 * m <= 20 * total THEN "medium"
    ELSE "low"

\* C12: in the summary over T posts a pattern matching in m >= 1 posts has one
\* entry, with severity high when 100*m/T > 20, medium when 10 <= 100*m/T <= 20
\* and low otherwise; a pattern matching in no post has no entry; the empty corpus
\* gives the empty summary.
C12_PatternSeverity ==
    forbidden_result # None =>
        IF texts = <<>>
        THEN forbidden_result = [by_category |-> <<>>, detected_patterns |-> <<>>]
        ELSE \A c \in 1..Len(PATTERN_CATEGORIES) :
                 \A k \in 1..Len(PATTERN_CATEGORIES[c].patterns) :
                     LET m == Cardinality(PostsMatching(c, k))
                     IN  IF m = 0 THEN EntriesOf(c, k) = {}
                         ELSE /\ Cardinality(EntriesOf(c, k)) = 1
                              /\ \A e \in EntriesOf(c, k) :
                                    LET entry == forbidden_result.detected_patterns[e]
                                    IN  /\ entry.match_count = m
                                        /\ entry.category = PATTERN_CATEGORIES[c].category
                                        /\ entry.severity = ClaimSeverity(m, Len(texts))

HasEntry(count, severity) ==
    \E e \in 1..Len(forbidden_result.detected_patterns) :
        /\ forbidden_result.detected_patterns[e].match_count = count
        /\ forbidden_result.detected_patterns[e].severity = severity

\* ten posts: patterns in 1 and in 2 of them sit on the boundaries 10% and 20%
\* (medium), a pattern in 3 of them is high
C12_Witness ==
    /\ forbidden_result # None
    /\ Len(texts) = 10
    /\ HasEntry(1, "medium")
    /\ HasEntry(2, "medium")
    /\ HasEntry(3, "high")

\* eleven posts: a pattern in 1 of them is below 10% (low)
C12_WitnessLow ==
    /\ forbidden_result # None
    /\ Len(texts) = 11
    /\ HasEntry(1, "low")

\* the posts of the corpus that match at least one pattern of the c-th category
PostsInCategory(c) ==
    UNION {PostsMatching(c, k) : k \in 1..Len(PATTERN_CATEGORIES[c].patterns)}

\* C13: each category's count is the number of distinct posts matching at least
\* one pattern of the category, however many patterns or matches a post has: it
\* is at most the number of posts and at least every match_count of the category.
C13_CategoryCount ==
    forbidden_result # None /\ texts # <<>> =>
        \A c \in 1..Len(PATTERN_CATEGORIES) :
            LET count == forbidden_result.by_category[PATTERN_CATEGORIES[c].category]
            IN  /\ count = Cardinality(PostsInCategory(c))
                /\ count <= Len(texts)
                /\ \A e \in 1..Len(forbidden_result.detected_patterns) :
                      forbidden_result.detected_patterns[e].category
                          = PATTERN_CATEGORIES[c].category
                      => forbidden_result.detected_patterns[e].match_count <= count

\* posts that match two patterns of Self-referential, one of them twice, and
\* patterns of other categories: the category counts posts, not matches
C13_Witness ==
    /\ forbidden_result # None
    /\ texts # <<>>
    /\ forbidden_result.by_category["Self-referential"] = 3
    /\ Cardinality(PostsMatching(2, 2)) = 3
    /\ Cardinality(PostsMatching(2, 3)) = 2
    /\ forbidden_result.by_category["Low-effort"] = 1
    /\ Cardinality(EntriesOf(4, 1)) = 1 /\ Cardinality(EntriesOf(4, 2)) = 1

\* the place of a category name in alphabetical order
NameRank(category) ==
    CASE category = "Link patterns" -> 1
      [] category = "Low-effort" -> 2
      [] category = "Off-topic" -> 3
      [] category = "Promotional" -> 4
      [] category = "Self-referential" -> 5
      [] category = "Spam indicators" -> 6

\* entries a and b of the summary have the same match_count
Tied(a, b) ==
    forbidden_result.detected_patterns[a].match_count
        = forbidden_result.detected_patterns[b].match_count

\* C25 as stated: the entries of the summary are ordered by match_count
\* descending, and entries with equal match_count are ordered by category name,
\* whatever the order in which the taxonomy declares the categories
C25_TiesByCategoryName ==
    (forbidden_result # None /\ texts # <<>>) =>
        LET entries == forbidden_result.detected_patterns
        IN  \A a, b \in 1..Len(entries) :
                a < b =>
                    \/ entries[a].match_count > entries[b].match_count
                    \/ /\ Tied(a, b)
                       /\ NameRank(entries[a].category) <= NameRank(entries[b].category)

\* C25: the entries of the summary are ordered by match_count descending, and
\* entries with equal match_count keep the order in which the taxonomy declares
\* their categories and, within a category, its patterns
C25_TiesByDeclaration ==
    (forbidden_result # None /\ texts # <<>>) =>
        LET entries == forbidden_result.detected_patterns
        IN  \A a, b \in 1..Len(entries) :
                a < b =>
                    \/ entries[a].match_count > entries[b].match_count
                    \/ /\ Tied(a, b)
                       /\ LET da == entries[a].pattern_description
                              db == entries[b].pattern_description
                          IN  da[1] < db[1] \/ (da[1] = db[1] /\ da[2] < db[2])

\* a summary with entries of equal match_count from two categories whose
\* declaration order is not their alphabetical order
C25_Witness ==
    /\ forbidden_result # None
    /\ texts # <<>>
    /\ \E a, b \in 1..Len(forbidden_result.detected_patterns) :
          /\ a < b
          /\ Tied(a, b)
          /\ NameRank(forbidden_result.detected_patterns[a].category)
                > NameRank(forbidden_result.detected_patterns[b].category)

----------------------------------------------------------------------------
\* SpecPenalties: check_post_penalties applied to every text of up to MaxTextLen
\* tokens of PenaltyVocabulary

PenaltyVocabulary == {"My tool", "my tool", "Free Trial", "free trial", "Thoughts?", "!!!!",
                      "!!!", "shocking", "bit.ly/", "works"}

MaxTextLen == 3

PenaltiesInit ==
    /\ post_text = <<>>
    /\ penalties = None
    /\ jargon_penalty = None
    /\ texts = <<>>
    /\ forbidden_result = None
    /\ doc = None
    /\ vader_calls = 0
    /\ top_success_hooks = None
    /\ post_data = None
    /\ community_avg = None
    /\ score_breakdown = None
    /\ posts_data = <<>>
    /\ isc_result = None
    /\ RunUnused
    /\ GenerationUnused
    /\ ServiceUnused

AppendToken(tok) ==
    /\ penalties = None
    /\ Len(post_text) < MaxTextLen
    /\ post_text' = Append(post_text, tok)
    /\ UNCHANGED <<penalties, jargon_penalty, texts, forbidden_result, doc, vader_calls,
                   top_success_hooks, scorerVars, runVars, generationVars, serviceVars>>

CheckPenalties ==
    /\ penalties = None
    /\ penalties' = Return(check_post_penalties(post_text))
    /\ UNCHANGED <<post_text, jargon_penalty, texts, forbidden_result, doc, vader_calls,
                   top_success_hooks, scorerVars, runVars, generationVars, serviceVars>>

PenaltiesNext ==
    \/ \E tok \in PenaltyVocabulary : AppendToken(tok)
    \/ CheckPenalties

SpecPenalties == PenaltiesInit /\ [][PenaltiesNext]_vars

\* <<c, k, j>>: the k-th pattern of the c-th category matches the j-th token
MatchPoints ==
    {p \in (1..Len(PATTERN_CATEGORIES)) \X (1..10) \X (1..Len(post_text)) :
        /\ p[2] <= Len(PATTERN_CATEGORIES[p[1]].patterns)
        /\ PatternMatches(PATTERN_CATEGORIES[p[1]].patterns[p[2]], post_text[p[3]])}

\* the scanning order: categories, then patterns, then positions
ScannedBefore(p, q) ==
    \/ p[1] < q[1]
    \/ p[1] = q[1] /\ p[2] < q[2]
    \/ p[1] = q[1] /\ p[2] = q[2] /\ p[3] < q[3]

\* the first match met whose phrase equals the given one ignoring case
FirstMatch(phrase) ==
    CHOOSE p \in MatchPoints :
        /\ lower(post_text[p[3]]) = lower(phrase)
        /\ \A q \in MatchPoints :
              lower(post_text[q[3]]) = lower(phrase) => q = p \/ ScannedBefore(p, q)

ClaimCategorySeverity(category) ==
    IF category = "Promotional" \/ category = "Spam indicators" THEN "high"
    ELSE IF category = "Self-referential" \/ category = "Link patterns" THEN "medium"
    ELSE "low"

\* C14: check_post_penalties returns no two entries whose phrases are equal
\* ignoring case; every matched phrase has its entry, which is the first match met
\* scanning categories, then patterns, then positions, with its casing and its
\* category; entries come in that order; severity is high for Promotional and Spam
\* indicators, medium for Self-referential and Link patterns, low for the others;
\* the empty text gives the empty list.
C14_PenaltiesDeduplicated ==
    penalties # None =>
        LET returned == penalties.value
        IN
        /\ post_text = <<>> => returned = <<>>
        /\ \A i, j \in 1..Len(returned) :
              i # j => lower(returned[i].phrase) # lower(returned[j].phrase)
        /\ {lower(returned[i].phrase) : i \in 1..Len(returned)}
              = {lower(post_text[p[3]]) : p \in MatchPoints}
        /\ \A i \in 1..Len(returned) :
              LET p == FirstMatch(returned[i].phrase)
              IN  /\ returned[i].phrase = post_text[p[3]]
                  /\ returned[i].category = PATTERN_CATEGORIES[p[1]].category
                  /\ returned[i].severity = ClaimCategorySeverity(returned[i].category)
        /\ \A i, j \in 1..Len(returned) :
              i < j => ScannedBefore(FirstMatch(returned[i].phrase),
                                     FirstMatch(returned[j].phrase))

\* a phrase met in two casings keeps the first one, and a line of exclamation marks
\* is kept as the Low-effort match met before the Spam one
C14_Witness ==
    /\ penalties # None
    /\ post_text = <<"My tool", "!!!!", "my tool">>
    /\ Len(penalties.value) = 2
    /\ penalties.value[1] = [phrase |-> "My tool", severity |-> "medium",
                             category |-> "Self-referential"]
    /\ penalties.value[2] = [phrase |-> "!!!!", severity |-> "low", category |-> "Low-effort"]

----------------------------------------------------------------------------
\* nlp_pipeline.py: the custom components applied to one Doc

\* a token of a Doc, with the attributes the components read
Token(word, lemma, is_alpha, is_stop, is_space) ==
    [text |-> word, lemma_ |-> lemma, is_alpha |-> is_alpha, is_stop |-> is_stop,
     is_space |-> is_space]

\* doc.text.strip() is empty: the Doc has no token that is not whitespace
StripsToEmpty(tokens) == \A i \in 1..Len(tokens) : tokens[i].is_space

\* variant: the thresholds are exclusive
tone_of_exclusive(compound) ==
    IF RLt(Rat(5, 100), compound) THEN "positive"
    ELSE IF RLt(compound, Rat(-5, 100)) THEN "negative"
    ELSE "neutral"

\* the tone tone_classifier derives from the compound polarity
tone_of(compound) ==
    IF RLe(Rat(5, 100), compound) THEN "positive"
    ELSE IF RLe(compound, Rat(-5, 100)) THEN "negative"
    ELSE "neutral"

\* tone_classifier, given the compound vader.polarity_scores would return:
\* <<tone, tone_compound, calls of vader.polarity_scores>>
tone_classifier(tokens, compound) ==
    IF StripsToEmpty(tokens) THEN <<"neutral", RInt(0), 0>>
    ELSE <<tone_of(compound), compound, 1>>

\* variant: lemmas are compared as written, without lower()
vocabulary_complexity_cased(tokens) ==
    LET alpha == SelectSeq(tokens, LAMBDA t : t.is_alpha)
        alpha_tokens == [i \in 1..Len(alpha) |-> alpha[i].lemma_]
    IN  IF tokens = <<>> THEN None
        ELSE IF alpha_tokens # <<>>
        THEN Rat(Cardinality({alpha_tokens[i] : i \in 1..Len(alpha_tokens)}),
                 Len(alpha_tokens))
        ELSE None

\* rhythm_analyzer: doc._.vocabulary_complexity (a Doc without tokens has no sentence)
vocabulary_complexity(tokens) ==
    LET alpha == SelectSeq(tokens, LAMBDA t : t.is_alpha)
        alpha_tokens == [i \in 1..Len(alpha) |-> lower(alpha[i].lemma_)]
    IN  IF tokens = <<>> THEN None
        ELSE IF alpha_tokens # <<>>
        THEN Rat(Cardinality({alpha_tokens[i] : i \in 1..Len(alpha_tokens)}),
                 Len(alpha_tokens))
        ELSE None

\* analyze_posts_batch: the entry appended to results for one processed Doc
batch_entry(processed) ==
    IF StripsToEmpty(processed.tokens)
    THEN [tone |-> "neutral", tone_compound |-> RInt(0), vocabulary_complexity |-> None]
    ELSE [tone |-> processed.tone, tone_compound |-> processed.tone_compound,
          vocabulary_complexity |-> processed.vocabulary_complexity]

----------------------------------------------------------------------------
\* SpecNlp: the pipeline applied to every Doc of up to MaxDocLen tokens of TokenPool

TokenPool == {Token("Running", "run", TRUE, FALSE, FALSE),
              Token("runs", "run", TRUE, FALSE, FALSE),
              Token("Reddit", "Reddit", TRUE, FALSE, FALSE),
              Token("reddit", "reddit", TRUE, FALSE, FALSE),
              Token("The", "the", TRUE, TRUE, FALSE),
              Token("42", "42", FALSE, FALSE, FALSE),
              Token(" ", " ", FALSE, FALSE, TRUE)}

\* compound polarities VADER can return (it rounds to 4 decimals)
Compounds == {RInt(-1), Rat(-1, 10), Rat(-5, 100), Rat(-499, 10000), RInt(0),
              Rat(499, 10000), Rat(5, 100), Rat(6, 100), RInt(1)}

MaxDocLen == 3

NewDoc(tokens) ==
    [tokens |-> tokens, stage |-> "tokens", tone |-> None, tone_compound |-> None,
     vocabulary_complexity |-> None, entry |-> None]

NlpInit ==
    /\ doc = NewDoc(<<>>)
    /\ vader_calls = 0
    /\ post_text = <<>>
    /\ jargon_penalty = None
    /\ penalties = None
    /\ texts = <<>>
    /\ forbidden_result = None
    /\ top_success_hooks = None
    /\ post_data = None
    /\ community_avg = None
    /\ score_breakdown = None
    /\ posts_data = <<>>
    /\ isc_result = None
    /\ RunUnused
    /\ GenerationUnused
    /\ ServiceUnused

NlpFrame ==
    UNCHANGED <<post_text, jargon_penalty, penalties, texts, forbidden_result,
                top_success_hooks, scorerVars, runVars, generationVars, serviceVars>>

\* the tokenizer yields one more token
TokenizeNext(token) ==
    /\ doc.stage = "tokens"
    /\ Len(doc.tokens) < MaxDocLen
    /\ doc' = [doc EXCEPT !.tokens = Append(@, token)]
    /\ UNCHANGED vader_calls
    /\ NlpFrame

ToneClassifier(compound) ==
    /\ doc.stage = "tokens"
    /\ LET classified == tone_classifier(doc.tokens, compound)
       IN  /\ doc' = [doc EXCEPT !.stage = "tone", !.tone = classified[1],
                                 !.tone_compound = classified[2]]
           /\ vader_calls' = vader_calls + classified[3]
    /\ NlpFrame

RhythmAnalyzer ==
    /\ doc.stage = "tone"
    /\ doc' = [doc EXCEPT !.stage = "rhythm",
                          !.vocabulary_complexity = vocabulary_complexity(doc.tokens)]
    /\ UNCHANGED vader_calls
    /\ NlpFrame

BatchEntry ==
    /\ doc.stage = "rhythm"
    /\ doc' = [doc EXCEPT !.stage = "done", !.entry = batch_entry(doc)]
    /\ UNCHANGED vader_calls
    /\ NlpFrame

NlpNext ==
    \/ \E token \in TokenPool : TokenizeNext(token)
    \/ \E compound \in Compounds : ToneClassifier(compound)
    \/ RhythmAnalyzer
    \/ BatchEntry

SpecNlp == NlpInit /\ [][NlpNext]_vars

\* the text of the Doc is empty or whitespace only
WhitespaceOnly == \A i \in 1..Len(doc.tokens) : doc.tokens[i].is_space

ToneClassified == doc # None /\ doc.stage \in {"tone", "rhythm", "done"}

\* C15: the tone is positive exactly when the compound polarity is >= 0.05,
\* negative exactly when it is <= -0.05 and neutral otherwise (0.06 positive,
\* -0.10 negative, 0.0 neutral); an empty or whitespace-only text has tone neutral
\* and compound 0.0 and the sentiment model is not called for it.  The entry of
\* analyze_posts_batch carries the same tone and compound.
C15_ToneThresholds ==
    ToneClassified =>
        /\ IF WhitespaceOnly
           THEN doc.tone = "neutral" /\ doc.tone_compound = RInt(0) /\ vader_calls = 0
           ELSE /\ vader_calls = 1
                /\ doc.tone = "positive" <=> RLe(Rat(5, 100), doc.tone_compound)
                /\ doc.tone = "negative" <=> RLe(doc.tone_compound, Rat(-5, 100))
                /\ doc.tone = "neutral" <=>
                      /\ RLt(Rat(-5, 100), doc.tone_compound)
                      /\ RLt(doc.tone_compound, Rat(5, 100))
                /\ doc.tone_compound = Rat(6, 100) => doc.tone = "positive"
                /\ doc.tone_compound = Rat(-10, 100) => doc.tone = "negative"
                /\ doc.tone_compound = RInt(0) => doc.tone = "neutral"
        /\ doc.stage = "done" =>
              /\ doc.entry.tone = doc.tone
              /\ doc.entry.tone_compound = doc.tone_compound

\* a text whose compound polarity is exactly 0.05 comes out positive
C15_Witness ==
    /\ doc # None
    /\ doc.stage = "done"
    /\ ~WhitespaceOnly
    /\ doc.tone_compound = Rat(5, 100)
    /\ doc.entry.tone = "positive"
    /\ vader_calls = 1

\* distinct lowercase lemmas over tokens, for the tokens that qualify
TypeTokenRatio(qualifying) ==
    IF qualifying = <<>> THEN None
    ELSE Rat(Cardinality({lower(qualifying[i].lemma_) : i \in 1..Len(qualifying)}),
             Len(qualifying))

----------------------------------------------------------------------------
\* analysis_service.py: top_success_hooks of _build_community_profile.  Here a
\* raw text is a sequence of characters.

Whitespace == {" ", "\n", "\t"}

\* text.split(sep)[0]: the text up to the first sep, all of it when there is none
split_first(chars, sep) ==
    LET found == {i \in 1..Len(chars) : chars[i] = sep}
    IN  IF found = {} THEN chars
        ELSE SubSeq(chars, 1, (CHOOSE i \in found : \A j \in found : i <= j) - 1)

RECURSIVE lstrip(_)
lstrip(chars) ==
    IF chars # <<>> /\ Head(chars) \in Whitespace THEN lstrip(Tail(chars)) ELSE chars

RECURSIVE rstrip(_)
rstrip(chars) ==
    IF chars # <<>> /\ chars[Len(chars)] \in Whitespace
    THEN rstrip(SubSeq(chars, 1, Len(chars) - 1))
    ELSE chars

\* str.strip()
strip(chars) == rstrip(lstrip(chars))

\* text.split('.')[0].split('?')[0].split('!')[0].strip()
first_sentence(chars) == strip(split_first(split_first(split_first(chars, "."), "?"), "!"))

HOOK_MIN_LENGTH == 10

HOOK_MAX_LENGTH == 200

HOOK_POSTS == 5

\* variant: the posts are taken in the order given, not by score
top_scored_posts_unsorted(scored_posts) ==
    SliceFirst([i \in 1..Len(scored_posts) |-> i], HOOK_POSTS)

\* sorted(scored_posts, key=total_score, reverse=True)[:5], as positions
top_scored_posts(scored_posts) ==
    IF scored_posts = <<>> THEN <<>> ELSE SliceFirst(sorted_posts(scored_posts), HOOK_POSTS)

\* the loop over top_posts from its k-th post on
RECURSIVE hooks_from(_, _, _)
hooks_from(scored_posts, order, k) ==
    IF k > Len(order) THEN <<>>
    ELSE LET sentence == first_sentence(scored_posts[order[k]].raw_text)
         IN  (IF sentence # <<>> /\ Len(sentence) > HOOK_MIN_LENGTH
              THEN <<SliceFirst(sentence, HOOK_MAX_LENGTH)>>
              ELSE <<>>)
             \o hooks_from(scored_posts, order, k + 1)

build_top_success_hooks(scored_posts) ==
    hooks_from(scored_posts, top_scored_posts(scored_posts), 1)

----------------------------------------------------------------------------
\* SpecHooks: top_success_hooks for every list of up to MaxHookPosts distinct
\* posts of HookPool

Letters(n) == [i \in 1..n |-> "a"]

HookPost(raw_text, score) == [raw_text |-> raw_text, total_score |-> score]

HookPool == {HookPost(Letters(11) \o <<".", " ">> \o Letters(4), RInt(9)),
             HookPost(Letters(10) \o <<"?">>, RInt(8)),
             HookPost(Letters(9) \o <<"!", "a">>, RInt(8)),
             HookPost(<<" ", " ">> \o Letters(12) \o <<" ", "\n", ".">>, RInt(7)),
             HookPost(Letters(201) \o <<".">>, RInt(6)),
             HookPost(Letters(15), Rat(11, 2)),
             HookPost(Letters(11) \o <<"?">> \o Letters(3) \o <<".">>, RInt(8))}

MaxHookPosts == 6

HooksInit ==
    /\ posts_data = <<>>
    /\ top_success_hooks = None
    /\ post_data = None
    /\ community_avg = None
    /\ score_breakdown = None
    /\ isc_result = None
    /\ post_text = <<>>
    /\ jargon_penalty = None
    /\ penalties = None
    /\ texts = <<>>
    /\ forbidden_result = None
    /\ doc = None
    /\ vader_calls = 0
    /\ RunUnused
    /\ GenerationUnused
    /\ ServiceUnused

AddHookPost(post) ==
    /\ top_success_hooks = None
    /\ Len(posts_data) < MaxHookPosts
    /\ \A i \in 1..Len(posts_data) : posts_data[i] # post
    /\ posts_data' = Append(posts_data, post)
    /\ UNCHANGED <<top_success_hooks, post_data, community_avg, score_breakdown, isc_result,
                   post_text, jargon_penalty, penalties, texts, forbidden_result, doc,
                   vader_calls, runVars, generationVars, serviceVars>>

BuildHooks ==
    /\ top_success_hooks = None
    /\ top_success_hooks' = Return(build_top_success_hooks(posts_data))
    /\ UNCHANGED <<posts_data, post_data, community_avg, score_breakdown, isc_result,
                   post_text, jargon_penalty, penalties, texts, forbidden_result, doc,
                   vader_calls, runVars, generationVars, serviceVars>>

HooksNext ==
    \/ \E post \in HookPool : AddHookPost(post)
    \/ BuildHooks

SpecHooks == HooksInit /\ [][HooksNext]_vars

\* the post at position i comes before the one at j in descending score order
\* (posts of equal score keep their order)
ScoredAhead(i, j) ==
    \/ RLt(posts_data[j].total_score, posts_data[i].total_score)
    \/ posts_data[i].total_score = posts_data[j].total_score /\ i < j

RankOf(i) == 1 + Cardinality({j \in 1..Len(posts_data) : ScoredAhead(j, i)})

PostAtRank(r) == CHOOSE i \in 1..Len(posts_data) : RankOf(i) = r

\* the text before the first '.', '?' or '!', without surrounding whitespace
FirstClause(chars) ==
    LET stops == {i \in 1..Len(chars) : chars[i] \in {".", "?", "!"}}
        clause == IF stops = {} THEN chars
                  ELSE SubSeq(chars, 1, (CHOOSE i \in stops : \A j \in stops : i <= j) - 1)
        inked == {i \in 1..Len(clause) : clause[i] \notin Whitespace}
    IN  IF inked = {} THEN <<>>
        ELSE SubSeq(clause, CHOOSE i \in inked : \A j \in inked : i <= j,
                            CHOOSE i \in inked : \A j \in inked : j <= i)

\* the hooks of the posts ranked r.. among the 5 highest, keeping the first
\* clauses of at least shortest characters, cut to 200 characters
RECURSIVE HooksFromRank(_, _)
HooksFromRank(r, shortest) ==
    IF r > 5 \/ r > Len(posts_data) THEN <<>>
    ELSE LET clause == FirstClause(posts_data[PostAtRank(r)].raw_text)
         IN  (IF Len(clause) >= shortest
              THEN <<SubSeq(clause, 1, IF Len(clause) > 200 THEN 200 ELSE Len(clause))>>
              ELSE <<>>)
             \o HooksFromRank(r + 1, shortest)

\* C16 as stated: top_success_hooks has at most 5 entries, the first clauses of
\* the 5 highest total_score posts in descending score order, each cut to 200
\* characters, a clause being left out only when it is under 10 characters long
\* (one of exactly 10 characters is kept).
C16_HooksFromTen ==
    top_success_hooks # None =>
        /\ Len(top_success_hooks.value) <= 5
        /\ top_success_hooks.value = HooksFromRank(1, 10)

\* C16 amended: as above, but a first clause (stripped of surrounding whitespace)
\* is left out when it is 10 characters long or shorter; one of 11 is kept.
C16_HooksOverTen ==
    top_success_hooks # None =>
        /\ Len(top_success_hooks.value) <= 5
        /\ top_success_hooks.value = HooksFromRank(1, 11)

\* six posts; among the five highest are a clause of exactly 10 characters (left
\* out), one of 11 (kept), a padded one and one of 201 (cut to 200); posts of
\* equal score are present
C16_Witness ==
    /\ top_success_hooks # None
    /\ Len(posts_data) = 6
    /\ \E i \in 1..6 : RankOf(i) <= 5 /\ Len(FirstClause(posts_data[i].raw_text)) = 10
    /\ \E i \in 1..6 : RankOf(i) = 6 /\ Len(FirstClause(posts_data[i].raw_text)) > 10
    /\ \E i, j \in 1..6 : i # j /\ posts_data[i].total_score = posts_data[j].total_score
    /\ \E h \in 1..Len(top_success_hooks.value) : Len(top_success_hooks.value[h]) = 200
    /\ \E h \in 1..Len(top_success_hooks.value) : Len(top_success_hooks.value[h]) = 11
    /\ \E h \in 1..Len(top_success_hooks.value) : Len(top_success_hooks.value[h]) = 12
    /\ Len(top_success_hooks.value) = 4


----------------------------------------------------------------------------
\* blacklist_validator.py: validate_draft

\* re.compile(regex_pattern, re.IGNORECASE) on the pattern strings used here:
\* a compiled pattern, re.error for a malformed expression, and OverflowError
\* ("the repetition number is too large") for a repeat count the parser cannot hold
re_compile(regex_pattern) ==
    CASE regex_pattern = "\\bclick here\\b" -> Return(Pattern({"click here"}, TRUE))
      [] regex_pattern = "\\bbuy now\\b" -> Return(Pattern({"buy now"}, TRUE))
      [] regex_pattern = "[invalid(pattern" ->
            Raise("re.error", "unterminated character set")
      [] regex_pattern = "a{4294967296}" ->
            Raise("OverflowError", "the repetition number is too large")

\* dict.get(key, default)
Get(entry, key, default) == IF key \in DOMAIN entry THEN entry[key] ELSE default

BlacklistViolation(pattern, category, matched_text) ==
    [pattern |-> pattern, category |-> category, matched_text |-> matched_text]

BlacklistCheckResult(violations) ==
    [passed |-> Len(violations) = 0, violations |-> violations]

\* the body of the try block for one entry: the violations of its matches, or
\* the exception raised by re.compile
entry_violations(text, pattern_entry) ==
    LET regex_pattern == Get(pattern_entry, "regex_pattern", "")
        category == Get(pattern_entry, "category", "Unknown")
        compiled_pattern == re_compile(regex_pattern)
    IN  IF compiled_pattern.raised THEN compiled_pattern
        ELSE LET matches == findall(compiled_pattern.value, text)
             IN  Return([i \in 1..Len(matches) |->
                            BlacklistViolation(regex_pattern, category, matches[i])])

\* validate_draft: `except re.error: continue` skips the entry, any other
\* exception leaves the function
RECURSIVE validate_from(_, _, _)
validate_from(text, patterns, violations) ==
    IF patterns = <<>> THEN Return(BlacklistCheckResult(violations))
    ELSE LET found == entry_violations(text, Head(patterns))
         IN  IF ~found.raised
             THEN validate_from(text, Tail(patterns), violations \o found.value)
             ELSE IF found.error = "re.error"
             THEN validate_from(text, Tail(patterns), violations)
             ELSE found

validate_draft(text, patterns) == validate_from(text, patterns, <<>>)

----------------------------------------------------------------------------
\* SpecValidate: validate_draft applied to every draft of up to MaxDraftLen
\* tokens and every list of up to MaxPatterns caller-supplied pattern entries

DraftVocabulary == {"Click here", "click here", "buy now", "see"}

PatternEntries ==
    {[regex_pattern |-> "\\bclick here\\b", category |-> "Promotional",
      pattern_description |-> "Click here CTA"],
     [regex_pattern |-> "\\bbuy now\\b"],
     [regex_pattern |-> "[invalid(pattern", category |-> "Test",
      pattern_description |-> "Broken pattern"],
     [regex_pattern |-> "a{4294967296}", category |-> "Test",
      pattern_description |-> "Oversized repeat"]}

MaxDraftLen == 2
MaxPatterns == 3

ValidateInit ==
    /\ post_data = None
    /\ community_avg = None
    /\ score_breakdown = None
    /\ posts_data = <<>>
    /\ isc_result = None
    /\ RunUnused
    /\ AnalysisUnused
    /\ draft_text = <<>>
    /\ forbidden_patterns = <<>>
    /\ blacklist_check = None
    /\ request = None
    /\ gating = None
    /\ ServiceUnused

ValidateFrame ==
    UNCHANGED <<scorerVars, runVars, analysisVars, request, gating, serviceVars>>

AppendDraftToken(tok) ==
    /\ ValidateFrame
    /\ blacklist_check = None
    /\ Len(draft_text) < MaxDraftLen
    /\ draft_text' = Append(draft_text, tok)
    /\ UNCHANGED <<forbidden_patterns, blacklist_check>>

AddPatternEntry(pattern_entry) ==
    /\ ValidateFrame
    /\ blacklist_check = None
    /\ Len(forbidden_patterns) < MaxPatterns
    /\ forbidden_patterns' = Append(forbidden_patterns, pattern_entry)
    /\ UNCHANGED <<draft_text, blacklist_check>>

ValidateDraft ==
    /\ ValidateFrame
    /\ blacklist_check = None
    /\ blacklist_check' = validate_draft(draft_text, forbidden_patterns)
    /\ UNCHANGED <<draft_text, forbidden_patterns>>

ValidateNext ==
    \/ \E tok \in DraftVocabulary : AppendDraftToken(tok)
    \/ \E pattern_entry \in PatternEntries : AddPatternEntry(pattern_entry)
    \/ ValidateDraft

SpecValidate == ValidateInit /\ [][ValidateNext]_vars

\* the entry's regular expression is one re.compile refuses
InvalidRegex(pattern_entry) == re_compile(pattern_entry.regex_pattern).raised

\* the matches the valid entries have in the draft: (entry, position) pairs
ValidMatches ==
    {<<i, j>> \in (1..Len(forbidden_patterns)) \X (1..Len(draft_text)) :
        /\ ~InvalidRegex(forbidden_patterns[i])
        /\ PatternMatches(re_compile(forbidden_patterns[i].regex_pattern).value,
                          draft_text[j])}

\* C19: for every list of pattern entries of which any subset are invalid regular
\* expressions, validate_draft raises no error, skips each invalid entry, reports
\* every match of every valid entry (before and after the invalid ones), and
\* returns passed = true exactly when the violation list is empty
C19_InvalidPatternsSkipped ==
    blacklist_check # None =>
        /\ ~blacklist_check.raised
        /\ LET checked == blacklist_check.value
           IN  /\ Len(checked.violations) = Cardinality(ValidMatches)
               /\ \A m \in ValidMatches :
                    \E v \in 1..Len(checked.violations) :
                        /\ checked.violations[v].pattern =
                               forbidden_patterns[m[1]].regex_pattern
                        /\ checked.violations[v].matched_text = draft_text[m[2]]
               /\ \A v \in 1..Len(checked.violations) :
                    ~InvalidRegex([regex_pattern |-> checked.violations[v].pattern])
               /\ checked.passed <=> checked.violations = <<>>


----------------------------------------------------------------------------
\* isc_gating.py: validate_generation_request

\* an Optional[str] that is set
Some(value) == <<value>>

\* a constraint or reason string; isc_score is the argument of an f-string
\* template ("{isc_score:.1f}"), None for a literal
Message(text, isc_score) == [text |-> text, isc_score |-> isc_score]

ZERO_LINKS == Message("ZERO links allowed - no URLs of any kind", None)

NEW_ACCOUNT_CONSTRAINTS ==
    <<Message("Account is NEW - warm-up mode active", None),
      Message("Maximum vulnerability required (use 'I', 'my', 'me' extensively)", None),
      ZERO_LINKS,
      Message("No product pitch - focus entirely on asking for help", None),
      Message("Maximum formality: 0.9 (very casual and personal)", None),
      Message("Share struggles and uncertainties openly", None)>>

HighIscConstraints(isc_score) ==
    <<Message("Community has VERY HIGH sensitivity (ISC {isc_score:.1f}/10)", isc_score),
      Message("Maximum vulnerability required (emotions, personal pronouns, questions)", None),
      ZERO_LINKS,
      Message("Minimize all promotional language", None),
      Message("Focus on authenticity over polish", None),
      Message("Show genuine uncertainty and ask for community guidance", None)>>

\* branches 3 to 5: the constraints of the archetype
ArchetypeConstraints(archetype) ==
    IF archetype = "ProblemSolution"
    THEN <<Message("ProblemSolution archetype: 90% pain / 10% solution ratio", None),
           Message("NO greetings (avoid 'Hi everyone', 'Hey folks', etc.)", None),
           Message("Product mention ONLY in final 10% of post", None),
           Message("Focus first 2-3 paragraphs entirely on the problem", None),
           Message("Explain why existing solutions fail", None),
           Message("Keep solution description brief and matter-of-fact", None),
           Message("Avoid marketing language entirely in problem section", None)>>
    ELSE IF archetype = "Journey"
    THEN <<Message("Journey archetype: Technical diary style", None),
           Message("Include specific milestones with dates or timeframes", None),
           Message("Use concrete numbers and metrics (users, iterations, hours spent)", None),
           Message("Show the discovery process, not just the outcome", None),
           Message("Mention setbacks and failed attempts", None),
           Message("Product mention should emerge naturally from the story", None),
           Message("Write in past tense for completed milestones, present for current status", None)>>
    ELSE IF archetype = "Feedback"
    THEN <<Message("Feedback archetype: Invert authority pattern", None),
           Message("Ask community to find flaws and problems", None),
           Message("Show controlled imperfection (mention what you're unsure about)", None),
           Message("Frame yourself as student, community as teacher", None),
           Message("Ask specific questions about concerns or decisions", None),
           Message("Acknowledge limitations of your approach", None),
           Message("Invite critique, not just praise", None)>>
    ELSE <<>>

\* the ISC-based general constraints
GeneralConstraints(isc_score) ==
    (IF RLt(RInt(5), isc_score)
     THEN <<Message("Community has elevated sensitivity (ISC {isc_score:.1f}/10) - increase authenticity", isc_score)>>
     ELSE <<>>)
    \o (IF RLe(isc_score, RInt(3))
        THEN <<Message("Community has low sensitivity (ISC {isc_score:.1f}/10) - standard promotional language acceptable", isc_score)>>
        ELSE <<>>)

GatingResult(allowed, forced_archetype, constraints, reason) ==
    [allowed |-> allowed, forced_archetype |-> forced_archetype,
     constraints |-> constraints, reason |-> reason]

\* variant: an ISC of exactly 7.5 is already high
high_isc_inclusive(isc_score) == RLe(Rat(15, 2), isc_score)

\* isc_score > 7.5
high_isc(isc_score) == RLt(Rat(15, 2), isc_score)

validate_generation_request(subreddit, archetype, account_status, isc_score) ==
    IF account_status = "New"
    THEN IF archetype # "Feedback"
         THEN GatingResult(FALSE, Some("Feedback"), NEW_ACCOUNT_CONSTRAINTS,
                  Some(Message("New accounts must use Feedback archetype (warm-up mode)", None)))
         ELSE GatingResult(TRUE, None, NEW_ACCOUNT_CONSTRAINTS, None)
    ELSE IF high_isc(isc_score)
    THEN IF archetype \in {"ProblemSolution", "Journey"}
         THEN GatingResult(FALSE, Some("Feedback"), HighIscConstraints(isc_score),
                  Some(Message("ISC {isc_score:.1f} > 7.5: Only Feedback archetype allowed for high-sensitivity communities", isc_score)))
         ELSE GatingResult(TRUE, None, HighIscConstraints(isc_score), None)
    ELSE GatingResult(TRUE, None,
                      ArchetypeConstraints(archetype) \o GeneralConstraints(isc_score), None)

----------------------------------------------------------------------------
\* SpecGating: validate_generation_request applied to every request made of the
\* archetypes, account statuses and ISC scores below

Archetypes == {"Journey", "ProblemSolution", "Feedback", "journey", "Showcase"}

AccountStatuses == {"New", "WarmingUp", "Established", "new"}

IscScores == {RInt(1), RInt(3), Rat(31, 10), RInt(5), Rat(51, 10), Rat(74, 10),
              Rat(15, 2), Rat(76, 10), RInt(10)}

GatingInit ==
    /\ post_data = None
    /\ community_avg = None
    /\ score_breakdown = None
    /\ posts_data = <<>>
    /\ isc_result = None
    /\ RunUnused
    /\ AnalysisUnused
    /\ GenerationUnused
    /\ ServiceUnused

GatingFrame ==
    UNCHANGED <<scorerVars, runVars, analysisVars, draft_text, forbidden_patterns,
                blacklist_check, serviceVars>>

\* a caller's request
NewRequest(archetype, account_status, isc_score) ==
    /\ GatingFrame
    /\ request = None
    /\ request' = [subreddit |-> "python", archetype |-> archetype,
                   account_status |-> account_status, isc_score |-> isc_score]
    /\ UNCHANGED gating

ValidateRequest ==
    /\ GatingFrame
    /\ request # None
    /\ gating = None
    /\ gating' = validate_generation_request(request.subreddit, request.archetype,
                                             request.account_status, request.isc_score)
    /\ UNCHANGED request

GatingNext ==
    \/ \E archetype \in Archetypes, account_status \in AccountStatuses,
          isc_score \in IscScores : NewRequest(archetype, account_status, isc_score)
    \/ ValidateRequest

SpecGating == GatingInit /\ [][GatingNext]_vars

HasZeroLinks(constraints) ==
    \E i \in 1..Len(constraints) :
        constraints[i].text = "ZERO links allowed - no URLs of any kind"

----------------------------------------------------------------------------
\* cost_tracker.py: CostTracker.check_budget and record_usage

\* COST_CAPS.get(plan, COST_CAPS["trial"]): the default is evaluated before the
\* lookup, so a table without "trial" raises KeyError for every plan
plan_cap(caps, plan) ==
    IF "trial" \notin DOMAIN caps THEN Raise("KeyError", "trial")
    ELSE IF plan \in DOMAIN caps THEN Return(caps[plan])
    ELSE Return(caps["trial"])

check_budget(caps, rows, plan) ==
    LET cap == plan_cap(caps, plan)
    IN  IF cap.raised THEN cap
        ELSE LET total_cost == RSum(rows)
                 remaining == RSub(cap.value, total_cost)
             IN  Return(<<RLt(RInt(0), remaining), remaining>>)

----------------------------------------------------------------------------
\* SpecBudget: check_budget for every cap table below, every plan name and every
\* list of up to MaxUsage usage rows of the current billing cycle

\* COST_CAPS of router.py, and the tables the tests patch in
CapTables ==
    {[trial |-> RInt(5), starter |-> RInt(15), growth |-> RInt(40)],
     [trial |-> RInt(1), starter |-> RInt(10)],
     [trial |-> RInt(1), expired |-> RInt(0)],
     [trial |-> RInt(0), starter |-> RInt(10)]}

Plans == {"trial", "starter", "growth", "expired", "nonexistent_plan"}

Costs == {Rat(1, 2), RInt(1), RInt(5), RInt(15)}

MaxUsage == 3

BudgetInit ==
    /\ post_data = None
    /\ community_avg = None
    /\ score_breakdown = None
    /\ posts_data = <<>>
    /\ isc_result = None
    /\ RunUnused
    /\ AnalysisUnused
    /\ GenerationUnused
    /\ cost_caps \in CapTables
    /\ usage_tracking = <<>>
    /\ budget_plan = None
    /\ budget = None
    /\ CollectionUnused
    /\ ToneUnused
    /\ MonitorUnused
    /\ TaskUnused

BudgetFrame ==
    UNCHANGED <<scorerVars, runVars, analysisVars, generationVars, collectionVars,
                toneVars, monitorVars, taskVars, cost_caps>>

\* record_usage: one more row of the user in the current cycle
RecordUsage(cost_usd) ==
    /\ BudgetFrame
    /\ budget = None
    /\ Len(usage_tracking) < MaxUsage
    /\ usage_tracking' = Append(usage_tracking, cost_usd)
    /\ UNCHANGED <<budget_plan, budget>>

CheckBudget(plan) ==
    /\ BudgetFrame
    /\ budget = None
    /\ budget_plan' = <<plan>>
    /\ budget' = check_budget(cost_caps, usage_tracking, plan)
    /\ UNCHANGED usage_tracking

BudgetNext ==
    \/ \E cost_usd \in Costs : RecordUsage(cost_usd)
    \/ \E plan \in Plans : CheckBudget(plan)

SpecBudget == BudgetInit /\ [][BudgetNext]_vars

\* the cap the plan is held to: its own, or the trial cap for an unknown plan
ClaimCap == IF budget_plan[1] \in DOMAIN cost_caps THEN cost_caps[budget_plan[1]]
            ELSE cost_caps["trial"]

\* C21: check_budget returns can_proceed = true exactly when the summed cost of
\* the cycle is strictly below the plan's cap, with remaining = cap - spend; with
\* a cap of 0 it returns (False, 0.0) whatever usage is recorded; an unknown plan
\* name uses the trial cap
C21_BudgetCheck ==
    budget # None =>
        /\ ~budget.raised
        /\ LET spend == RSum(usage_tracking)
           IN  IF ClaimCap = RInt(0)
               THEN budget.value = <<FALSE, RInt(0)>>
               ELSE /\ budget.value[1] <=> RLt(spend, ClaimCap)
                    /\ budget.value[2] = RSub(ClaimCap, spend)


----------------------------------------------------------------------------
\* collection_service.py: CollectionService.run_collection

CollectionResult(status, counts, errs) ==
    [raised |-> FALSE, status |-> status, scraped |-> counts.scraped,
     filtered |-> counts.filtered, classified |-> counts.classified, errors |-> errs]

AppError(code, message, details) ==
    [raised |-> TRUE, code |-> code, message |-> message, details |-> details]

\* f"Failed to process subreddit {subreddit}: ..." and
\* f"Classification failed for post in {subreddit}: ..."
CollectError(kind, subreddit) == [kind |-> kind, subreddit |-> subreddit]

----------------------------------------------------------------------------
\* SpecCollect: run_collection on every campaign of up to MaxTargets target
\* subreddits, with every outcome of the scrape, the classification and the
\* store of each subreddit

TargetNames == {"python", "programming", "r/python"}

\* str.startswith("r/") on the names above
StartsWithR(subreddit) == subreddit \in {"r/python"}

\* what one iteration of the loop meets: posts scraped, filtered, classified and
\* stored; scrape_subreddit raising; _classify_post raising for the post sent to
\* it; _store_posts raising
CollectFaults == {"none", "empty", "scrape", "classify", "store"}

MaxTargets == 3

CollectInit ==
    /\ post_data = None
    /\ community_avg = None
    /\ score_breakdown = None
    /\ posts_data = <<>>
    /\ isc_result = None
    /\ RunUnused
    /\ AnalysisUnused
    /\ GenerationUnused
    /\ ServiceUnused

CollectFrame ==
    UNCHANGED <<scorerVars, runVars, analysisVars, generationVars, budgetVars,
                toneVars, monitorVars, taskVars>>

\* the campaign is configured with one more target subreddit
AddTarget(subreddit) ==
    /\ CollectFrame
    /\ collect_pc = "idle"
    /\ Len(target_subreddits) < MaxTargets
    /\ target_subreddits' = Append(target_subreddits, subreddit)
    /\ UNCHANGED <<scrape_calls, stored_posts, collect_pc, collect_todo, collect_errors,
                   collect_counts, collect_result>>

\* run_collection up to the loop: the campaign fetch and the two early raises
StartCollection(found) ==
    /\ CollectFrame
    /\ collect_pc = "idle"
    /\ collect_counts' = [scraped |-> 0, filtered |-> 0, classified |-> 0]
    /\ IF ~found
       THEN /\ collect_result' = AppError("RESOURCE_NOT_FOUND",
                                          "Campaign not found or access denied", <<>>)
            /\ collect_pc' = "done"
            /\ collect_todo' = <<>>
       ELSE IF target_subreddits = <<>>
       THEN /\ collect_result' = AppError("VALIDATION_ERROR",
                                          "Campaign has no target subreddits configured", <<>>)
            /\ collect_pc' = "done"
            /\ collect_todo' = <<>>
       ELSE /\ collect_result' = None
            /\ collect_pc' = "loop"
            /\ collect_todo' = target_subreddits
    /\ UNCHANGED <<target_subreddits, scrape_calls, stored_posts, collect_errors>>

\* one iteration of the loop over target_subreddits
CollectSubreddit(fault) ==
    /\ CollectFrame
    /\ collect_pc = "loop"
    /\ collect_todo # <<>>
    /\ LET subreddit == Head(collect_todo)
           step == Len(target_subreddits) - Len(collect_todo) + 1
           scraped == IF fault = "empty" THEN 0 ELSE 1
       IN  /\ scrape_calls' = Append(scrape_calls,
                [step |-> step, subreddit |-> subreddit, failed |-> fault = "scrape"])
           /\ IF fault = "scrape"
              THEN /\ collect_errors' = Append(collect_errors,
                                               CollectError("process", subreddit))
                   /\ UNCHANGED <<collect_counts, stored_posts>>
              ELSE /\ collect_counts' =
                        [scraped |-> collect_counts.scraped + scraped,
                         filtered |-> collect_counts.filtered + scraped,
                         classified |-> collect_counts.classified
                                        + (IF fault \in {"none", "store"} THEN 1 ELSE 0)]
                   /\ collect_errors' = collect_errors
                        \o (IF fault = "classify"
                            THEN <<CollectError("classification", subreddit)>> ELSE <<>>)
                        \o (IF fault = "store"
                            THEN <<CollectError("process", subreddit)>> ELSE <<>>)
                   /\ stored_posts' = IF fault = "store" THEN stored_posts
                                      ELSE Append(stored_posts, subreddit)
    /\ collect_todo' = Tail(collect_todo)
    /\ UNCHANGED <<target_subreddits, collect_pc, collect_result>>

\* the return after the loop
FinishCollection ==
    /\ CollectFrame
    /\ collect_pc = "loop"
    /\ collect_todo = <<>>
    /\ collect_pc' = "done"
    /\ collect_result' = CollectionResult(
            IF collect_errors # <<>> THEN "partial" ELSE "complete",
            collect_counts, collect_errors)
    /\ UNCHANGED <<target_subreddits, scrape_calls, stored_posts, collect_todo,
                   collect_errors, collect_counts>>

CollectNext ==
    \/ \E subreddit \in TargetNames : AddTarget(subreddit)
    \/ \E found \in BOOLEAN : StartCollection(found)
    \/ \E fault \in CollectFaults : CollectSubreddit(fault)
    \/ FinishCollection

SpecCollect == CollectInit /\ [][CollectNext]_vars

\* the target subreddits whose name starts with "r/"
Prefixed == {i \in 1..Len(target_subreddits) : StartsWithR(target_subreddits[i])}

\* the run ended at the campaign fetch: no campaign, no target_subreddits
CampaignNotFound ==
    /\ collect_result # None
    /\ collect_result.raised
    /\ collect_result.code = "RESOURCE_NOT_FOUND"

\* C22: run_collection on a campaign with at least one target subreddit starting
\* with "r/" fails with VALIDATION_ERROR whose details name the offending
\* subreddit, before scraping, classifying or storing posts for any subreddit
C22_PrefixRejected ==
    (collect_pc # "idle" /\ Prefixed # {} /\ ~CampaignNotFound)
    => /\ collect_pc = "done"
       /\ collect_result.raised
       /\ collect_result.code = "VALIDATION_ERROR"
       /\ \E i \in Prefixed : collect_result.details = <<target_subreddits[i]>>
       /\ scrape_calls = <<>>
       /\ stored_posts = <<>>


\* the calls of scrape_subreddit made for the step-th target subreddit
ScrapesOf(step) == SelectSeq(scrape_calls, LAMBDA call : call.step = step)

\* C23: when scraping a subreddit fails, the scrape of that subreddit is attempted
\* exactly one more time; the subreddit is recorded in errors only when both
\* attempts fail, the remaining subreddits are still processed and the result
\* status is then 'partial'
C23_ScrapeRetriedOnce ==
    (collect_pc = "done" /\ ~collect_result.raised) =>
        /\ \A step \in 1..Len(target_subreddits) :
              /\ ScrapesOf(step) # <<>>
              /\ Len(ScrapesOf(step)) = IF ScrapesOf(step)[1].failed THEN 2 ELSE 1
        /\ collect_result.errors # <<>> => collect_result.status = "partial"


----------------------------------------------------------------------------
\* Properties of calculate_isc_score: the quartiles

\* the post at position i comes before the post at position j in the descending
\* ordering: a higher total_score, or the same total_score and earlier in the input
ComesBefore(i, j) ==
    \/ RLt(posts_data[j].total_score, posts_data[i].total_score)
    \/ posts_data[i].total_score = posts_data[j].total_score /\ i < j

\* the number of posts that come before the post at position i
AheadOf(i) == Cardinality({j \in 1..Len(posts_data) : ComesBefore(j, i)})

\* C24: posts with the same total_score keep their input order in the descending
\* ordering, so the top quartile is the first len // 4 posts of that ordering, ties
\* at its boundary going to the earliest input position, the bottom quartile the
\* last len // 4, and the ISC returned is the one computed from these quartiles
C24_StableQuartiles ==
    (isc_result # None /\ Len(posts_data) >= MIN_POSTS) =>
        LET n == Len(posts_data)
            k == n \div 4
            order == sorted_posts(posts_data)
        IN  /\ \A a \in 1..n : AheadOf(order[a]) = a - 1
            /\ Range(top_posts(posts_data)) = {i \in 1..n : AheadOf(i) < k}
            /\ Range(bottom_posts(posts_data)) = {i \in 1..n : AheadOf(i) >= n - k}
            /\ isc_result = calculate_isc_score(posts_data)

\* an ISC has been computed for posts of which two with the same total_score sit
\* on either side of the top-quartile boundary
C24_Witness ==
    /\ isc_result # None
    /\ Len(posts_data) >= MIN_POSTS
    /\ \E i, j \in 1..Len(posts_data) :
          /\ i < j
          /\ posts_data[i].total_score = posts_data[j].total_score
          /\ AheadOf(i) < Len(posts_data) \div 4
          /\ AheadOf(j) >= Len(posts_data) \div 4


----------------------------------------------------------------------------
\* analysis_service.py: _build_community_profile, dominant_tone

\* tones = [r["tone"] for r in nlp_results if r.get("tone")]
tones_of(results) ==
    LET labelled == SelectSeq(results, LAMBDA r : r.tone # None)
    IN  [i \in 1..Len(labelled) |-> labelled[i].tone[1]]

\* the keys of tone_counts, in insertion order: each label where it first occurs
RECURSIVE tone_keys(_, _)
tone_keys(tones, seen) ==
    IF tones = <<>> THEN <<>>
    ELSE IF Head(tones) \in seen THEN tone_keys(Tail(tones), seen)
    ELSE <<Head(tones)>> \o tone_keys(Tail(tones), seen \cup {Head(tones)})

\* tone_counts[tone]
tone_count(tones, tone) == Cardinality({i \in 1..Len(tones) : tones[i] = tone})

\* variant: a later key with the same count replaces the best so far
RECURSIVE max_key_last(_, _, _)
max_key_last(keys, tones, best) ==
    IF keys = <<>> THEN best
    ELSE IF tone_count(tones, Head(keys)) >= tone_count(tones, best)
         THEN max_key_last(Tail(keys), tones, Head(keys))
         ELSE max_key_last(Tail(keys), tones, best)

\* max(tone_counts, key=tone_counts.get): the first key with the largest count
RECURSIVE max_key(_, _, _)
max_key(keys, tones, best) ==
    IF keys = <<>> THEN best
    ELSE IF tone_count(tones, Head(keys)) > tone_count(tones, best)
         THEN max_key(Tail(keys), tones, Head(keys))
         ELSE max_key(Tail(keys), tones, best)

build_dominant_tone(results) ==
    LET tones == tones_of(results)
        keys == tone_keys(tones, {})
    IN  IF keys # <<>> THEN max_key(Tail(keys), tones, Head(keys)) ELSE "neutral"

----------------------------------------------------------------------------
\* SpecTone: dominant_tone for every list of up to MaxResults per-post results

\* r["tone"]: a label of tone_classifier, or None
ToneLabels == {Some("positive"), Some("negative"), Some("neutral"), None}

MaxResults == 5

ToneInit ==
    /\ post_data = None
    /\ community_avg = None
    /\ score_breakdown = None
    /\ posts_data = <<>>
    /\ isc_result = None
    /\ RunUnused
    /\ AnalysisUnused
    /\ GenerationUnused
    /\ ServiceUnused

ToneFrame ==
    UNCHANGED <<scorerVars, runVars, analysisVars, generationVars, budgetVars,
                collectionVars, monitorVars, taskVars>>

\* nlp_results.append: the result of one more post
AddToneResult(tone) ==
    /\ ToneFrame
    /\ dominant_tone = None
    /\ Len(batch_results) < MaxResults
    /\ batch_results' = Append(batch_results, [tone |-> tone])
    /\ UNCHANGED dominant_tone

BuildDominantTone ==
    /\ ToneFrame
    /\ dominant_tone = None
    /\ dominant_tone' = Some(build_dominant_tone(batch_results))
    /\ UNCHANGED batch_results

ToneNext ==
    \/ \E tone \in ToneLabels : AddToneResult(tone)
    \/ BuildDominantTone

SpecTone == ToneInit /\ [][ToneNext]_vars

\* the posts whose result carries the label
PostsWithTone(label) ==
    {i \in 1..Len(batch_results) : batch_results[i].tone = <<label>>}

Min(S) == CHOOSE x \in S : \A y \in S : x <= y

\* C26: dominant_tone is a tone label with the highest number of posts; when
\* several labels tie for the highest count, the one that appears first in the
\* per-post results is chosen; when no post has a tone label it is neutral
C26_DominantTone ==
    dominant_tone # None =>
        LET chosen == dominant_tone[1]
            labels == {"positive", "negative", "neutral"}
        IN  IF \A label \in labels : PostsWithTone(label) = {}
            THEN chosen = "neutral"
            ELSE /\ PostsWithTone(chosen) # {}
                 /\ \A label \in labels :
                      Cardinality(PostsWithTone(label)) <= Cardinality(PostsWithTone(chosen))
                 /\ \A label \in labels \ {chosen} :
                      Cardinality(PostsWithTone(label)) = Cardinality(PostsWithTone(chosen))
                      => Min(PostsWithTone(chosen)) < Min(PostsWithTone(label))

\* a dominant tone chosen among two labels with the same, highest count, the
\* first post carrying no label
C26_Witness ==
    /\ dominant_tone = <<"negative">>
    /\ Len(batch_results) = 5
    /\ batch_results[1].tone = None
    /\ Cardinality(PostsWithTone("negative")) = 2
    /\ Cardinality(PostsWithTone("positive")) = 2


-----------------------------------------------------------------------------
\* SpecMonitor: one shadow entry, its monitoring checks and its audits

\* timedelta(minutes=30) of the verification check
VERIFICATION_MINUTES == 30

\* asyncio.sleep(900) of schedule_periodic_monitoring, in minutes
SCHEDULER_MINUTES == 15

\* upvotes >= 10 or comments >= 3
SUCCESS_UPVOTES == 10

SUCCESS_COMMENTS == 3

\* register_post: the interval of the account status
check_interval_of(account_status) == IF account_status = "New" THEN 1 ELSE 4

\* register_post: the inserted row; the insert has no metadata column
register_post(account_status, now) ==
    [status_vida |-> "Ativo",
     account_status |-> account_status,
     check_interval_hours |-> check_interval_of(account_status),
     total_checks |-> 0,
     last_check_at |-> now,
     next_check_at |-> now + 60 * check_interval_of(account_status),
     audit_result |-> None]

\* entry.get("metadata", {}).get("last_check_result")
previous_check_of(entry) ==
    IF "metadata" \in DOMAIN entry /\ "last_check_result" \in DOMAIN entry.metadata
    THEN Some(entry.metadata.last_check_result)
    ELSE None

\* run_monitoring_check, step 3: the consecutive failure logic
consecutive_status(detected_status, previous_check) ==
    IF detected_status = "shadowbanned"
    THEN IF previous_check # None /\ previous_check[1].detected_status = "shadowbanned"
         THEN "Shadowbanned"
         ELSE "Ativo"
    ELSE IF detected_status = "removed" THEN "Removido" ELSE "Ativo"

\* run_monitoring_check: the first detection writes the verification check
schedule_verification(entry, now) ==
    [entry EXCEPT !.next_check_at = now + VERIFICATION_MINUTES]

\* MonitoringService.update_post_status
update_post_status(entry, new_status, now) ==
    [entry EXCEPT !.status_vida = new_status,
                  !.total_checks = entry.total_checks + 1,
                  !.last_check_at = now,
                  !.next_check_at = now + 60 * entry.check_interval_hours]

\* run_post_audit of the worker: the outcome of the task result
worker_outcome(status, upvotes, comments) ==
    IF status \in {"Shadowbanned", "Removido"}
    THEN "Rejection"
    ELSE IF upvotes >= SUCCESS_UPVOTES \/ comments >= SUCCESS_COMMENTS
         THEN "SocialSuccess"
         ELSE "Inertia"

\* MonitoringService.run_post_audit: the outcome stored as audit_result
service_outcome(status, upvotes, comments) ==
    IF status \in {"Shadowbanned", "Removido"}
    THEN "Rejection"
    ELSE IF status = "Ativo" /\ (upvotes >= SUCCESS_UPVOTES \/ comments >= SUCCESS_COMMENTS)
         THEN "SocialSuccess"
         ELSE "Inertia"

\* MonitoringService.run_post_audit: the update of the row
store_audit(entry, outcome) ==
    [entry EXCEPT !.audit_result = Some(outcome), !.status_vida = "Auditado"]

\* dispatch_pending_checks: status_vida = 'Ativo' and next_check_at <= now
Due(entry, now) == entry.status_vida = "Ativo" /\ entry.next_check_at <= now

RegisteredStatuses == {"New", "Established"}

\* dual_check_post: its three results, and its failure
DualCheckOutcomes == {"active", "shadowbanned", "removed", "error"}

\* fetch_post_metrics: the metrics of the post, or None when the request fails
PostMetrics ==
    {Some([upvotes |-> u, comments |-> c]) : u \in {0, 9, 10}, c \in {0, 2, 3}} \cup {None}

MaxClock == 150

MaxChecks == 3

MonitorInit ==
    /\ post_data = None
    /\ community_avg = None
    /\ score_breakdown = None
    /\ posts_data = <<>>
    /\ isc_result = None
    /\ RunUnused
    /\ AnalysisUnused
    /\ GenerationUnused
    /\ ServiceUnused

MonitorFrame ==
    UNCHANGED <<scorerVars, runVars, analysisVars, generationVars, budgetVars,
                collectionVars, toneVars, taskVars>>

\* POST /monitoring: register_post; the first check is scheduled with it
RegisterPost(account_status) ==
    /\ MonitorFrame
    /\ shadow_table = <<>>
    /\ shadow_table' = <<register_post(account_status, clock)>>
    /\ UNCHANGED <<clock, detections, alerts, check_task, audit_task>>

\* schedule_periodic_monitoring: one period of the scheduler passes
Tick ==
    /\ MonitorFrame
    /\ clock + SCHEDULER_MINUTES <= MaxClock
    /\ clock' = clock + SCHEDULER_MINUTES
    /\ UNCHANGED <<shadow_table, detections, alerts, check_task, audit_task>>

\* run_monitoring_check of the entry, started at registration or by
\* dispatch_pending_checks
MonitoringCheck(detected_status) ==
    /\ MonitorFrame
    /\ shadow_table # <<>>
    /\ Len(detections) < MaxChecks
    /\ check_task = None \/ Due(shadow_table[1], clock)
    /\ IF detected_status = "error"
       THEN /\ check_task' = Some([state |-> "FAILURE"])
            /\ UNCHANGED <<shadow_table, detections, alerts>>
       ELSE LET entry == shadow_table[1]
                new_status == consecutive_status(detected_status, previous_check_of(entry))
                verified == IF detected_status = "shadowbanned" /\ new_status = "Ativo"
                            THEN schedule_verification(entry, clock)
                            ELSE entry
            IN  /\ shadow_table' = <<update_post_status(verified, new_status, clock)>>
                /\ detections' = Append(detections, detected_status)
                /\ alerts' = IF new_status = "Shadowbanned" THEN alerts + 1 ELSE alerts
                /\ check_task' = Some([state |-> "SUCCESS",
                                       status |-> new_status,
                                       detected_status |-> detected_status])
    /\ UNCHANGED <<clock, audit_task>>

\* run_post_audit of the worker, with the service call it makes
PostAudit(metrics) ==
    /\ MonitorFrame
    /\ IF shadow_table = <<>>
       THEN /\ audit_task' = Some([state |-> "FAILURE"])
            /\ UNCHANGED shadow_table
       ELSE LET entry == shadow_table[1]
                status == entry.status_vida
                rejected == status \in {"Shadowbanned", "Removido"}
            IN  IF ~rejected /\ metrics = None
                THEN /\ audit_task' = Some([state |-> "FAILURE"])
                     /\ UNCHANGED shadow_table
                ELSE LET upvotes == IF rejected THEN 0 ELSE metrics[1].upvotes
                         comments == IF rejected THEN 0 ELSE metrics[1].comments
                     IN  /\ shadow_table' =
                                <<store_audit(entry, service_outcome(status, upvotes, comments))>>
                         /\ audit_task' = Some([state |-> "SUCCESS",
                                                outcome |-> worker_outcome(status, upvotes, comments),
                                                upvotes |-> upvotes,
                                                comments |-> comments])
    /\ UNCHANGED <<clock, detections, alerts, check_task>>

MonitorNext ==
    \/ \E account_status \in RegisteredStatuses : RegisterPost(account_status)
    \/ Tick
    \/ \E detected_status \in DualCheckOutcomes : MonitoringCheck(detected_status)
    \/ \E metrics \in PostMetrics : PostAudit(metrics)

SpecMonitor == MonitorInit /\ [][MonitorNext]_vars

\* the last two checks of the entry both detected 'shadowbanned'
TwoConsecutiveDetections ==
    /\ Len(detections) >= 2
    /\ detections[Len(detections)] = "shadowbanned"
    /\ detections[Len(detections) - 1] = "shadowbanned"

\* the last finished check of the entry detected 'shadowbanned'
LastCheckDetected ==
    /\ check_task # None
    /\ check_task[1].state = "SUCCESS"
    /\ check_task[1].detected_status = "shadowbanned"

\* C27: a check sets the entry's status to Shadowbanned exactly when it
\* detects 'shadowbanned' and the check before it detected 'shadowbanned' too,
\* and the confirmed shadowban is the one that sends the alert
C27_ConsecutiveShadowban ==
    (check_task # None /\ check_task[1].state = "SUCCESS")
        => /\ (check_task[1].status = "Shadowbanned")
                <=> (LastCheckDetected /\ TwoConsecutiveDetections)
           /\ (LastCheckDetected /\ TwoConsecutiveDetections) => alerts > 0

\* C28: after a first, unconfirmed detection the entry's next_check_at is 30
\* minutes after the check time
C28_VerificationCheckSooner ==
    (LastCheckDetected /\ check_task[1].status = "Ativo")
        => shadow_table[1].next_check_at = shadow_table[1].last_check_at + VERIFICATION_MINUTES

\* C30: the outcome reported by an audit task that ended in SUCCESS is the
\* audit_result stored for the entry
C30_ReportedOutcomeStored ==
    (audit_task # None /\ audit_task[1].state = "SUCCESS")
        => shadow_table[1].audit_result = Some(audit_task[1].outcome)


-----------------------------------------------------------------------------
\* SpecTasks: the analysis tasks, their state in Redis and the progress streams

\* the parameters of run_analysis_background
run_analysis_background_parameters == <<"task_id", "campaign_id", "force_refresh">>

\* the keyword arguments of the call in run_analysis_background_task
run_analysis_background_keywords == {"user_id", "plan"}

\* Python's binding of a call: the positional arguments fill the first
\* parameters, every keyword names one of the remaining parameters
call_binds(parameters, positional, keywords) ==
    /\ positional <= Len(parameters)
    /\ \A k \in keywords :
            \E i \in (positional + 1)..Len(parameters) : parameters[i] = k

\* progress_stream: 10 silent polls give one keepalive
HEARTBEAT_POLLS == 10

\* get_task_state: the stored state, PENDING when the key is absent
get_task_state(store, task_id) ==
    IF store[task_id] = None THEN "PENDING" ELSE store[task_id][1]

\* progress_stream: the event of one state
event_of(state) ==
    CASE state = "SUCCESS" -> "success"
      [] state = "FAILURE" -> "error"
      [] state = "PROGRESS" -> "progress"
      [] state = "STARTED" -> "started"
      [] OTHER -> "pending"

\* progress_stream: one pass of the loop
poll(stream, state) ==
    IF state \in {"SUCCESS", "FAILURE"}
    THEN [stream EXCEPT !.last_state = Some(state),
                        !.events = stream.events \cup {event_of(state), "done"},
                        !.open = FALSE]
    ELSE IF Some(state) # stream.last_state
    THEN [stream EXCEPT !.last_state = Some(state),
                        !.events = stream.events \cup {event_of(state)},
                        !.heartbeat_counter = 0]
    ELSE IF stream.heartbeat_counter + 1 >= HEARTBEAT_POLLS
    THEN [stream EXCEPT !.events = stream.events \cup {"keepalive"},
                        !.heartbeat_counter = 0]
    ELSE [stream EXCEPT !.heartbeat_counter = stream.heartbeat_counter + 1]

\* run_analysis: it returns a result or raises
AnalysisOutcomes == {"SUCCESS", "FAILURE"}

MaxTasks == 2

MaxStreams == 1

TaskInit ==
    /\ post_data = None
    /\ community_avg = None
    /\ score_breakdown = None
    /\ posts_data = <<>>
    /\ isc_result = None
    /\ RunUnused
    /\ AnalysisUnused
    /\ GenerationUnused
    /\ ServiceUnused

TaskFrame ==
    UNCHANGED <<scorerVars, runVars, analysisVars, generationVars, budgetVars,
                collectionVars, toneVars, monitorVars>>

\* an asyncio task of run_analysis_background_task, not yet run
analysis_task(origin, force_refresh) ==
    [kind |-> "analysis", origin |-> origin, force_refresh |-> force_refresh, pc |-> "created"]

\* POST /analysis: trigger_analysis creates the task
TriggerAnalysis(force_refresh) ==
    /\ TaskFrame
    /\ Len(tasks) < MaxTasks
    /\ tasks' = Append(tasks, analysis_task("manual", force_refresh))
    /\ redis' = Append(redis, None)
    /\ UNCHANGED streams

\* run_collection_background: the collection ends and, when it did not raise,
\* the analysis task is created with user_id and plan
RunCollection(collected) ==
    /\ TaskFrame
    /\ Len(tasks) + 2 <= MaxTasks
    /\ IF collected
       THEN /\ tasks' = tasks \o <<[kind |-> "collection", pc |-> "done"],
                                   analysis_task("auto", FALSE)>>
            /\ redis' = redis \o <<Some("SUCCESS"), None>>
       ELSE /\ tasks' = Append(tasks, [kind |-> "collection", pc |-> "done"])
            /\ redis' = Append(redis, Some("FAILURE"))
    /\ UNCHANGED streams

\* run_analysis_background_task: the call of run_analysis_background and, when
\* the call binds, the worker's run
RunAnalysisTask(task_id) ==
    /\ TaskFrame
    /\ task_id \in DOMAIN tasks
    /\ tasks[task_id].kind = "analysis"
    /\ tasks[task_id].pc = "created"
    /\ IF call_binds(run_analysis_background_parameters, 3, run_analysis_background_keywords)
       THEN \E outcome \in AnalysisOutcomes :
                /\ redis' = [redis EXCEPT ![task_id] = Some(outcome)]
                /\ tasks' = [tasks EXCEPT ![task_id].pc = "done"]
       ELSE /\ tasks' = [tasks EXCEPT ![task_id].pc = "TypeError"]
            /\ UNCHANGED redis
    /\ UNCHANGED streams

\* GET /analysis/{task_id}/progress: the stream starts
OpenStream(task_id) ==
    /\ TaskFrame
    /\ task_id \in DOMAIN tasks
    /\ Len(streams) < MaxStreams
    /\ streams' = Append(streams, [task_id |-> task_id,
                                   last_state |-> None,
                                   heartbeat_counter |-> 0,
                                   events |-> {},
                                   open |-> TRUE])
    /\ UNCHANGED <<redis, tasks>>

\* progress_stream: one pass of the loop of an open stream
PollStream(s) ==
    /\ TaskFrame
    /\ s \in DOMAIN streams
    /\ streams[s].open
    /\ streams' = [streams EXCEPT ![s] = poll(streams[s], get_task_state(redis, streams[s].task_id))]
    /\ UNCHANGED <<redis, tasks>>

TaskNext ==
    \/ \E force_refresh \in BOOLEAN : TriggerAnalysis(force_refresh)
    \/ \E collected \in BOOLEAN : RunCollection(collected)
    \/ \E task_id \in 1..MaxTasks : RunAnalysisTask(task_id)
    \/ \E task_id \in 1..MaxTasks : OpenStream(task_id)
    \/ \E s \in 1..MaxStreams : PollStream(s)

SpecTasks == TaskInit /\ [][TaskNext]_vars

\* the event loop runs every created task, and every open stream keeps polling
TaskFairness ==
    /\ \A task_id \in 1..MaxTasks : WF_vars(RunAnalysisTask(task_id))
    /\ \A s \in 1..MaxStreams : WF_vars(PollStream(s))

SpecTasksFair == SpecTasks /\ TaskFairness

IsAnalysisTask(task_id) ==
    task_id \in DOMAIN tasks /\ tasks[task_id].kind = "analysis"

TaskFinished(task_id) ==
    IsAnalysisTask(task_id) /\ get_task_state(redis, task_id) \in {"SUCCESS", "FAILURE"}

StreamsAnalysis(s) ==
    s \in DOMAIN streams /\ IsAnalysisTask(streams[s].task_id)

\* C29: every analysis task eventually has the state SUCCESS or FAILURE, and
\* every progress stream of an analysis task eventually emits 'done'
C29_AnalysisTaskFinishes ==
    /\ \A task_id \in 1..MaxTasks : IsAnalysisTask(task_id) ~> TaskFinished(task_id)
    /\ \A s \in 1..MaxStreams :
            StreamsAnalysis(s) ~> (StreamsAnalysis(s) /\ "done" \in streams[s].events)

====
